---- MODULE Spec2Model ----
(***************************************************************************)
(* Model of the INOX price API: the pricing engine (calculatePrice), the   *)
(* override gate (sanitizeOverrides, keyMatches), the rule-set loader      *)
(* (getPricingConfig, reloadPricingConfig) and the HTTP handlers that tie  *)
(* them together.                                                          *)
(*                                                                         *)
(* Conventions.                                                            *)
(*  - A JavaScript object is a function from field names to values; an     *)
(*    absent field is a name outside DOMAIN.                               *)
(*  - A JSON document that has not been schema-checked yet is a record     *)
(*    [val, bad]: val holds the fields whose JSON type is the one the      *)
(*    schema expects, bad names the fields present with another JSON type  *)
(*    (a string where a number is expected, null, ...).                    *)
(*  - Money is in whole euros.  quantity is carried in HALVES (2 is one    *)
(*    piece, 3 is 1.5 pieces) because the schema admits fractions; amounts *)
(*    that were multiplied by a quantity are therefore in half euros until *)
(*    MathRound brings them back.                                          *)
(*  - A JavaScript number that may fail to be a number is a sequence:      *)
(*    <<n>> is the number n, <<>> is NaN.                                  *)
(*  - The rate limiter in front of the price endpoints is not modelled:    *)
(*    the actions are the requests it admits.                              *)
(***************************************************************************)
EXTENDS Integers, Sequences, FiniteSets, TLC

(* ------------------------------ bounds -------------------------------- *)

\* quantities 1, 1.5, 2, ... MaxQty are tried (besides the limits 1 and 500)
MaxQty == 3

\* MaxCalls calls of PriceCalculatorService.calculatePrice are under way at
\* the same time
MaxCalls == 2

\* every set of at most MaxOverrides override fields is tried (besides the
\* full set and the set of the test's override scenario)
MaxOverrides == 2

(* --------------------------- small helpers ---------------------------- *)

EmptyObject == [k \in {} |-> 0]

Has(obj, f) == f \in DOMAIN obj

Restrict(obj, S) == [k \in (DOMAIN obj) \cap S |-> obj[k]]

Without(obj, S) == [k \in (DOMAIN obj) \ S |-> obj[k]]

Min(a, b) == IF a < b THEN a ELSE b

Max(a, b) == IF a >= b THEN a ELSE b

NaN == <<>>

Num(n) == <<n>>

IsNum(x) == x # NaN

\* keys every plain object inherits from Object.prototype; the `in` operator
\* answers true for them
ObjectPrototypeKeys == {"constructor", "toString", "hasOwnProperty", "valueOf"}

\* JS `key in obj` for a plain object
InOperator(key, obj) == key \in DOMAIN obj \/ key \in ObjectPrototypeKeys

\* Math.round of h/2 for an integer h: nearest integer, ties toward +Infinity
MathRound(h) == (h + 1) \div 2

(* --------------------- src/price.ts: PriceInputSchema ------------------ *)

ProductTypes == {"dimensioned", "table_only", "all_in_one"}

DeliveryDays == {7, 30, 45, 60}

AdvancePayments == {"none", "50", "100"}

OverrideFields ==
  {"base_override_eur", "startup_discount_eur", "first_order_discount_eur",
   "delivery_surcharge_override", "two_pcs_line_discount_eur",
   "advance_payment_discount_eur", "custom_unit_adjust_eur",
   "custom_line_adjust_eur"}

PriceInputFields ==
  {"product_type", "dimension", "quantity", "delivery_days", "advance_payment"}
    \cup OverrideFields

\* the fields of body that PriceInputSchema rejects (quantity in halves:
\* min(1) is 2 halves, max(500) is 1000 halves)
PriceInputErrors(body) ==
  LET v == body.val
  IN  (body.bad \cap PriceInputFields)
      \cup (IF Has(v, "product_type") /\ v.product_type \in ProductTypes
              THEN {} ELSE {"product_type"})
      \cup (IF Has(v, "quantity") /\ (v.quantity < 2 \/ v.quantity > 1000)
              THEN {"quantity"} ELSE {})
      \cup (IF Has(v, "delivery_days") /\ v.delivery_days \in DeliveryDays
              THEN {} ELSE {"delivery_days"})
      \cup (IF Has(v, "advance_payment") /\ v.advance_payment \notin AdvancePayments
              THEN {"advance_payment"} ELSE {})

\* parsed.data of a body the schema accepts: unknown keys are stripped and
\* the defaults (quantity 1, advance_payment "none") are filled in
PriceInputData(body) ==
  Restrict(body.val, PriceInputFields)
    @@ [quantity |-> 2, advance_payment |-> "none"]

\* mutant: a delivery_days outside the tiers is moved up to the next tier
PriceInputSchema_ClampsDays(body) ==
  IF PriceInputErrors(body) = {"delivery_days"} /\ Has(body.val, "delivery_days")
    THEN [success |-> TRUE,
          data |-> [PriceInputData(body) EXCEPT !.delivery_days =
                      IF @ <= 7 THEN 7 ELSE IF @ <= 30 THEN 30
                      ELSE IF @ <= 45 THEN 45 ELSE 60]]
  ELSE IF PriceInputErrors(body) = {}
    THEN [success |-> TRUE, data |-> PriceInputData(body)]
    ELSE [success |-> FALSE, fieldErrors |-> PriceInputErrors(body)]

PriceInputSchema(body) ==
  IF PriceInputErrors(body) = {}
    THEN [success |-> TRUE, data |-> PriceInputData(body)]
    ELSE [success |-> FALSE, fieldErrors |-> PriceInputErrors(body)]

(* --------------------- src/app.ts: sanitizeOverrides ------------------- *)

\* mutant: one override field is left out of the destructuring
sanitizeOverrides_ForgetsField(input, allow) ==
  IF allow THEN input ELSE Without(input, OverrideFields \ {"custom_line_adjust_eur"})

\* mutant: the input is returned whatever the privilege
sanitizeOverrides_NoStrip(input, allow) == input

sanitizeOverrides(input, allow) ==
  IF allow THEN input ELSE Without(input, OverrideFields)

(* ---------------------- src/price.ts: calculatePrice ------------------- *)

\* mutant: a || b, which passes over an override of 0
Coalesce_Falsy(obj, f, dflt) == IF Has(obj, f) /\ obj[f] # 0 THEN obj[f] ELSE dflt

\* a ?? b on an optional field
Coalesce(obj, f, dflt) == IF Has(obj, f) THEN obj[f] ELSE dflt

\* obj[key] used as a number: undefined (no such key) is not a number
Lookup(obj, key) == IF Has(obj, key) THEN Num(obj[key]) ELSE NaN

\* the dimension test of a dimensioned order without a base override: the
\* order is refused when the dimension is missing, empty or not `in` the table
DimensionRejected(input, cfg) ==
  /\ ~Has(input, "base_override_eur")
  /\ input.product_type = "dimensioned"
  /\ \/ ~Has(input, "dimension")
     \/ input.dimension = ""
     \/ ~InOperator(input.dimension, cfg.dimensionBaseEUR)

\* the base price: the override, else by product type.  An inherited key
\* passes the `in` test and yields a function object, which is no number.
ResolveBase(input, cfg) ==
  IF Has(input, "base_override_eur") THEN Num(input.base_override_eur)
  ELSE IF input.product_type = "dimensioned"
    THEN Lookup(cfg.dimensionBaseEUR, input.dimension)
  ELSE IF input.product_type = "table_only" THEN Num(cfg.base_table_only)
  ELSE Num(cfg.base_all_in_one)

ResolveDelivery(input, cfg) ==
  LET overrideMap == Coalesce(input, "delivery_surcharge_override", EmptyObject)
      key == ToString(input.delivery_days)
  IN  IF Has(overrideMap, key) THEN Num(overrideMap[key])
      ELSE Lookup(cfg.delivery_surcharge_eur, key)

\* mutant: half a pair counts as half a discount
TwoPcsLineDiscount_Fractional(qty, rate) ==
  IF qty >= 4 THEN (rate * qty) \div 4 ELSE 0

\* lines 64-66: rate x Math.floor(qty / 2) for qty >= 2, else 0 (qty in halves)
TwoPcsLineDiscount(qty, rate) ==
  IF qty >= 4 THEN rate * (qty \div 4) ELSE 0

\* mutant: the total is not floored at 0
TotalOf_NoFloor(subtotalHalves, twoPcsLineDiscount, lineAdjust) ==
  MathRound(subtotalHalves - 2 * twoPcsLineDiscount + 2 * lineAdjust)

\* Math.max(0, round(subtotal - discount + line adjustment)), amounts in halves
TotalOf(subtotalHalves, twoPcsLineDiscount, lineAdjust) ==
  Max(0, MathRound(subtotalHalves - 2 * twoPcsLineDiscount + 2 * lineAdjust))

\* mutant: the floor at 0 is applied after the custom per-unit adjustment
UnitBeforeQty_FloorsLast(base, startup, firstOrder, delivery, advance, unitAdjust) ==
  Max(0, base - startup - firstOrder + delivery - advance + unitAdjust)

\* base - startup - firstOrder + delivery - advance, floored at 0, plus the
\* custom per-unit adjustment
UnitBeforeQty(base, startup, firstOrder, delivery, advance, unitAdjust) ==
  Max(0, base - startup - firstOrder + delivery - advance) + unitAdjust

calculatePrice(input, cfg) ==
  LET base == ResolveBase(input, cfg)
      startup == Coalesce(input, "startup_discount_eur", cfg.startup_discount_eur)
      firstOrder == Coalesce(input, "first_order_discount_eur",
                             cfg.first_order_discount_by_type[input.product_type])
      delivery == ResolveDelivery(input, cfg)
      advance == Coalesce(input, "advance_payment_discount_eur",
                          cfg.advance_payment_discount_eur[input.advance_payment])
      unitAdj == Coalesce(input, "custom_unit_adjust_eur", 0)
      lineAdj == Coalesce(input, "custom_line_adjust_eur", 0)
      numeric == IsNum(base) /\ IsNum(delivery)
      unit_before_qty ==
        UnitBeforeQty(base[1], startup, firstOrder, delivery[1], advance, unitAdj)
      qty == input.quantity
      subtotalBeforeLineAdj == unit_before_qty * qty
      twoPcsLineDiscount ==
        TwoPcsLineDiscount(qty, Coalesce(input, "two_pcs_line_discount_eur",
                                         cfg.two_pcs_line_discount_eur))
  IN  IF DimensionRejected(input, cfg)
        THEN [ok |-> FALSE, error |-> "Missing or invalid 'dimension'."]
        ELSE [ok |-> TRUE,
              value |->
                [base |-> base,
                 adjustments |->
                   [startup_discount |-> startup,
                    first_order_discount |-> firstOrder,
                    delivery_surcharge |-> delivery,
                    advance_payment_discount |-> advance,
                    two_pcs_line_discount_total |-> twoPcsLineDiscount,
                    custom_unit_adjust_eur |-> unitAdj,
                    custom_line_adjust_eur |-> lineAdj],
                 unit |-> IF numeric THEN Num(MathRound(2 * unit_before_qty)) ELSE NaN,
                 subtotal |-> IF numeric THEN Num(MathRound(subtotalBeforeLineAdj)) ELSE NaN,
                 total |-> IF numeric
                             THEN Num(TotalOf(subtotalBeforeLineAdj,
                                              twoPcsLineDiscount, lineAdj))
                             ELSE NaN]]

(* ------------------- config/pricing.v1.json: rule sets ----------------- *)

\* the reference rule set, as the comments of the price tests give it
\* (base 1170 for 200x100, 430 table only, 900 all in one, startup 25,
\* first order 50/50/150, delivery 25/100/200 for 60/45/30 days, advance 50
\* for 50%, pair discount 25); the 7-day surcharge and the 100% discount are
\* not in the tests.  dimensionOrder is no field of the file: it is the order
\* of the properties of dimensionBaseEUR, which JSON.parse takes from the text
\* and z.record keeps (the other objects get the order of the schema, and
\* the integer-like keys of delivery_surcharge_eur are always ascending).
RefCfg ==
  [dimensionBaseEUR |-> ("200x100" :> 1170),
   dimensionOrder |-> <<"200x100">>,
   base_table_only |-> 430,
   base_all_in_one |-> 900,
   startup_discount_eur |-> 25,
   first_order_discount_by_type |->
     [table_only |-> 50, all_in_one |-> 150, dimensioned |-> 50],
   delivery_surcharge_eur |-> ("7" :> 300) @@ ("30" :> 200) @@ ("45" :> 100) @@ ("60" :> 25),
   advance_payment_discount_eur |-> ("none" :> 0) @@ ("50" :> 50) @@ ("100" :> 100),
   two_pcs_line_discount_eur |-> 25]

\* an edited rule set: another dimension table, and a table-only base small
\* enough for the discounts to exceed it
AltCfg ==
  [dimensionBaseEUR |-> ("200x100" :> 1200) @@ ("180x90" :> 1000),
   dimensionOrder |-> <<"200x100", "180x90">>,
   base_table_only |-> 40,
   base_all_in_one |-> 950,
   startup_discount_eur |-> 30,
   first_order_discount_by_type |->
     [table_only |-> 50, all_in_one |-> 150, dimensioned |-> 60],
   delivery_surcharge_eur |-> ("7" :> 250) @@ ("30" :> 150) @@ ("45" :> 50) @@ ("60" :> 0),
   advance_payment_discount_eur |-> ("none" :> 0) @@ ("50" :> 40) @@ ("100" :> 80),
   two_pcs_line_discount_eur |-> 30]

\* the reference rule set without the surcharge of the 7-day tier: z.record
\* with an enum of keys checks the keys that are there, not that all are
PartialCfg ==
  [RefCfg EXCEPT !.delivery_surcharge_eur = ("30" :> 200) @@ ("45" :> 100) @@ ("60" :> 25)]

RuleSets == {RefCfg, AltCfg, PartialCfg}

(* ------------------------- orders that are tried ----------------------- *)

\* override values: OvPlus holds the values of the test's override scenario,
\* OvMinus holds zeros, negative adjustments and discounts larger than any price
OvPlus ==
  [base_override_eur |-> 1000,
   startup_discount_eur |-> 0,
   first_order_discount_eur |-> 10,
   delivery_surcharge_override |-> ("60" :> 5) @@ ("30" :> 7),
   two_pcs_line_discount_eur |-> 40,
   advance_payment_discount_eur |-> 30,
   custom_unit_adjust_eur |-> 15,
   custom_line_adjust_eur |-> -20]

OvMinus ==
  [base_override_eur |-> 0,
   startup_discount_eur |-> 2000,
   first_order_discount_eur |-> -10,
   delivery_surcharge_override |-> ("7" :> -50) @@ ("99" :> 1),
   two_pcs_line_discount_eur |-> 5000,
   advance_payment_discount_eur |-> -30,
   custom_unit_adjust_eur |-> -2000,
   custom_line_adjust_eur |-> -5000]

ScenarioDFields ==
  {"advance_payment_discount_eur", "custom_unit_adjust_eur", "custom_line_adjust_eur"}

OverrideSets ==
  {S \in SUBSET OverrideFields : Cardinality(S) <= MaxOverrides}
    \cup {OverrideFields, ScenarioDFields}

Overrides == {Restrict(ov, S) : ov \in {OvPlus, OvMinus}, S \in OverrideSets}

\* quantities in halves: 1, 1.5, ... MaxQty, and the upper limit 500
Quantities == (2 .. 2 * MaxQty) \cup {1000}

NoDimension == "<absent>"

\* "200x100" is in both tables, "180x90" in the edited one only, "999x999" in
\* none, "constructor" is inherited by every object, "" is the empty string
Dimensions == {NoDimension, "200x100", "180x90", "999x999", "constructor", ""}

Order(pt, dim, qty, days, adv) ==
  [product_type |-> pt, quantity |-> qty, delivery_days |-> days,
   advance_payment |-> adv]
    @@ (IF dim = NoDimension THEN EmptyObject ELSE [dimension |-> dim])

\* schema-valid orders without overrides; the dimension is varied for
\* dimensioned orders only (the other product types never read it)
BaseOrders ==
  {Order(pt, dim, qty, days, adv) :
     pt \in ProductTypes, dim \in Dimensions, qty \in Quantities,
     days \in DeliveryDays, adv \in AdvancePayments}

PlainOrders ==
  {o \in BaseOrders :
     o.product_type # "dimensioned" => ~Has(o, "dimension")}

(* ------------------ src/email.ts 178-230: the loader ------------------- *)

PricingFields ==
  {"dimensionBaseEUR", "base_table_only", "base_all_in_one",
   "startup_discount_eur", "first_order_discount_by_type",
   "delivery_surcharge_eur", "advance_payment_discount_eur",
   "two_pcs_line_discount_eur"}

DeliveryDaysSchema == {"7", "30", "45", "60"}

\* the fields of a parsed JSON document that PricingSchema rejects: a field
\* missing or of the wrong JSON type, an inner object without one of its
\* keys, a surcharge key outside the enum
PricingErrors(doc) ==
  LET v == doc.val
  IN  (PricingFields \ DOMAIN v)
      \cup (IF Has(v, "first_order_discount_by_type")
                 /\ ~(ProductTypes \subseteq DOMAIN v.first_order_discount_by_type)
              THEN {"first_order_discount_by_type"} ELSE {})
      \cup (IF Has(v, "advance_payment_discount_eur")
                 /\ ~(AdvancePayments \subseteq DOMAIN v.advance_payment_discount_eur)
              THEN {"advance_payment_discount_eur"} ELSE {})
      \cup (IF Has(v, "delivery_surcharge_eur")
                 /\ ~(DOMAIN v.delivery_surcharge_eur \subseteq DeliveryDaysSchema)
              THEN {"delivery_surcharge_eur"} ELSE {})

\* parsed.data: the document with the keys the schema does not name removed,
\* at the top level and in the two inner z.object's
PricingData(doc) ==
  LET v == Restrict(doc.val, PricingFields \cup {"dimensionOrder"})
  IN  [v EXCEPT
         !.first_order_discount_by_type = Restrict(@, ProductTypes),
         !.advance_payment_discount_eur = Restrict(@, AdvancePayments)]

PricingSchema(doc) ==
  IF PricingErrors(doc) = {}
    THEN [success |-> TRUE, data |-> PricingData(doc)]
    ELSE [success |-> FALSE, fieldErrors |-> PricingErrors(doc)]

\* the module-level `cached`: <<>> is null, <<cfg>> a rule set
NoCache == <<>>

\* line 214: a leading byte-order mark is cut off before JSON.parse
StripBOM(file) == [file EXCEPT !.bom = FALSE]

\* JSON.parse throws on malformed text and on a byte-order mark
JSONParses(file) == file.wellFormed /\ ~file.bom

\* lines 210-221: read, parse and validate the file; what is returned or
\* thrown, the cache left behind, and that the file was read
LoadFromFile(c, file) ==
  IF ~file.exists
    THEN [ok |-> FALSE, error |-> "ENOENT", cached |-> c, read |-> TRUE]
  ELSE IF ~JSONParses(StripBOM(file))
    THEN [ok |-> FALSE, error |-> "SyntaxError", cached |-> c, read |-> TRUE]
  ELSE IF ~PricingSchema(file.doc).success
    THEN [ok |-> FALSE, error |-> "Invalid pricing config", cached |-> c, read |-> TRUE]
  ELSE [ok |-> TRUE, cfg |-> PricingSchema(file.doc).data,
        cached |-> <<PricingSchema(file.doc).data>>, read |-> TRUE]

\* mutant: the cache is not consulted
getPricingConfig_NoMemo(c, file) == LoadFromFile(c, file)

\* mutant: with a rule set cached, a value mixed of the cached rule set and
\* the document in the file is returned
getPricingConfig_Mixed(c, file) ==
  IF c # NoCache
    THEN [ok |-> TRUE,
          cfg |-> IF file.exists /\ Has(file.doc.val, "base_all_in_one")
                    THEN [c[1] EXCEPT !.base_all_in_one = file.doc.val.base_all_in_one]
                    ELSE c[1],
          cached |-> c, read |-> TRUE]
    ELSE LoadFromFile(c, file)

\* getPricingConfig on cache c and source file
getPricingConfig(c, file) ==
  IF c # NoCache
    THEN [ok |-> TRUE, cfg |-> c[1], cached |-> c, read |-> FALSE]
    ELSE LoadFromFile(c, file)

\* mutant: the cache is not cleared before the load
reloadPricingConfig_KeepsCache(c, file) == getPricingConfig(c, file)

\* mutant: a reload that fails puts the rule set it found back
reloadPricingConfig_RestoresOnFailure(c, file) ==
  LET got == getPricingConfig(NoCache, file)
  IN  IF got.ok THEN got ELSE [got EXCEPT !.cached = c]

\* reloadPricingConfig: cached = null, then getPricingConfig()
reloadPricingConfig(c, file) == getPricingConfig(NoCache, file)

(* ------------------------ source files that are tried ------------------ *)

File(bom, doc) == [exists |-> TRUE, bom |-> bom, wellFormed |-> TRUE, doc |-> doc]

Doc(val) == [val |-> val, bad |-> {}]

NoFile == [exists |-> FALSE, bom |-> FALSE, wellFormed |-> FALSE, doc |-> Doc(EmptyObject)]

GarbageFile == [exists |-> TRUE, bom |-> FALSE, wellFormed |-> FALSE, doc |-> Doc(EmptyObject)]

RefFile == File(FALSE, Doc(RefCfg))

RefFileBOM == File(TRUE, Doc(RefCfg))

\* the edited rule set, with a key the schema does not name
AltFile == File(FALSE, Doc(AltCfg @@ [comment |-> "edited"]))

\* the edited rule set with the two dimensions written in the other order
AltFileReordered ==
  File(FALSE, Doc([AltCfg EXCEPT !.dimensionOrder = <<"180x90", "200x100">>]))

\* a required field is missing
MissingFieldFile == File(FALSE, Doc(Without(RefCfg, {"two_pcs_line_discount_eur"})))

\* a field holds a string instead of a number
IllTypedFile ==
  File(FALSE, [val |-> Without(AltCfg, {"base_table_only"}), bad |-> {"base_table_only"}])

ValidFiles == {RefFile, RefFileBOM, AltFile, AltFileReordered}

InvalidFiles == {NoFile, GarbageFile, MissingFieldFile, IllTypedFile}

Files == ValidFiles \cup InvalidFiles

(* ----------------------- src/app.ts: the handlers ---------------------- *)

NoHeader == "<no x-api-key>"

\* keyMatches: API_KEY is set and non-empty, and the header equals it
keyMatches(header, API_KEY) == API_KEY # "" /\ header = API_KEY

\* mutant: an authorized startup_discount_eur is written into the rule set
PostPriceHandler_WritesOverride(body, header, API_KEY, c, file) ==
  LET parsed == PriceInputSchema(body)
      payload == sanitizeOverrides(parsed.data, keyMatches(header, API_KEY))
      got == getPricingConfig(c, file)
      out == calculatePrice(payload, got.cfg)
      cfgAfter == [got.cfg EXCEPT !.startup_discount_eur =
                     Coalesce(payload, "startup_discount_eur", @)]
      ran == <<"safeParse", "sanitizeOverrides", "calculatePrice">>
  IN  IF ~parsed.success
        THEN [res |-> [status |-> 400, error |-> "Invalid payload",
                       details |-> parsed.fieldErrors],
              cached |-> c, read |-> FALSE, steps |-> <<"safeParse">>]
      ELSE IF ~got.ok
        THEN [res |-> [status |-> 500, error |-> got.error],
              cached |-> got.cached, read |-> got.read, steps |-> ran]
      ELSE [res |-> IF out.ok THEN [status |-> 200, body |-> out.value]
                    ELSE [status |-> 500, error |-> out.error],
            cached |-> <<cfgAfter>>, read |-> got.read, steps |-> ran]

\* mutant: a request that fails drops the cached rule set
PostPriceHandler_ErrorClearsCache(body, header, API_KEY, c, file) ==
  LET parsed == PriceInputSchema(body)
      payload == sanitizeOverrides(parsed.data, keyMatches(header, API_KEY))
      got == getPricingConfig(c, file)
      out == calculatePrice(payload, got.cfg)
      ran == <<"safeParse", "sanitizeOverrides", "calculatePrice">>
  IN  IF ~parsed.success
        THEN [res |-> [status |-> 400, error |-> "Invalid payload",
                       details |-> parsed.fieldErrors],
              cached |-> NoCache, read |-> FALSE, steps |-> <<"safeParse">>]
      ELSE IF ~got.ok
        THEN [res |-> [status |-> 500, error |-> got.error],
              cached |-> got.cached, read |-> got.read, steps |-> ran]
      ELSE IF ~out.ok
        THEN [res |-> [status |-> 500, error |-> out.error],
              cached |-> NoCache, read |-> got.read, steps |-> ran]
      ELSE [res |-> [status |-> 200, body |-> out.value],
            cached |-> got.cached, read |-> got.read, steps |-> ran]

\* POST /price (lines 64-76) on body and header with cache c and source file:
\* the response, the cache left behind, whether the source was read and the
\* steps that ran
PostPriceHandler(body, header, API_KEY, c, file) ==
  LET parsed == PriceInputSchema(body)
      payload == sanitizeOverrides(parsed.data, keyMatches(header, API_KEY))
      got == getPricingConfig(c, file)
      out == calculatePrice(payload, got.cfg)
  IN  IF ~parsed.success
        THEN [res |-> [status |-> 400, error |-> "Invalid payload",
                       details |-> parsed.fieldErrors],
              cached |-> c, read |-> FALSE, steps |-> <<"safeParse">>]
      ELSE IF ~got.ok
        THEN [res |-> [status |-> 500, error |-> got.error],
              cached |-> got.cached, read |-> got.read,
              steps |-> <<"safeParse", "sanitizeOverrides", "calculatePrice">>]
      ELSE IF ~out.ok
        THEN [res |-> [status |-> 500, error |-> out.error],
              cached |-> got.cached, read |-> got.read,
              steps |-> <<"safeParse", "sanitizeOverrides", "calculatePrice">>]
      ELSE [res |-> [status |-> 200, body |-> out.value],
            cached |-> got.cached, read |-> got.read,
            steps |-> <<"safeParse", "sanitizeOverrides", "calculatePrice">>]

\* JSON.stringify(cfg): the properties in their order; the properties of
\* dimensionBaseEUR as the sequence of its key/value pairs
JSONStringify(cfg) ==
  [dimensionBaseEUR |->
     [i \in DOMAIN cfg.dimensionOrder |->
        <<cfg.dimensionOrder[i], cfg.dimensionBaseEUR[cfg.dimensionOrder[i]]>>],
   others |-> Without(cfg, {"dimensionBaseEUR", "dimensionOrder"})]

\* the sha256 prefix of a text, taken as collision-free: the text itself
Sha256(text) == text

\* mutant: the hash is taken of the file's content, not of the cached rule set
configSignature_OfFile(c, file) ==
  LET got == LoadFromFile(c, file)
  IN  IF got.ok
        THEN [ok |-> TRUE, hash |-> Sha256(JSONStringify(got.cfg)),
              cached |-> IF c = NoCache THEN got.cached ELSE c, read |-> TRUE]
        ELSE [got EXCEPT !.cached = c]

\* configSignature (src/config-signature.ts) on cache c and source file
configSignature(c, file) ==
  LET got == getPricingConfig(c, file)
  IN  IF got.ok
        THEN [ok |-> TRUE, hash |-> Sha256(JSONStringify(got.cfg)),
              cached |-> got.cached, read |-> got.read]
        ELSE got

\* GET /healthz (lines 41-44).  An exception leaves a synchronous handler for
\* Express's error handler: 500.
HealthzHandler(c, file) ==
  LET got == configSignature(c, file)
  IN  IF got.ok
        THEN [res |-> [status |-> 200, hash |-> got.hash],
              cached |-> got.cached, read |-> got.read]
        ELSE [res |-> [status |-> 500, error |-> got.error],
              cached |-> got.cached, read |-> got.read]

\* mutant: the rule set is reloaded before the key is looked at
ReloadHandler_ReloadsFirst(header, API_KEY, c, file) ==
  LET got == reloadPricingConfig(c, file)
  IN  IF ~keyMatches(header, API_KEY)
        THEN [res |-> [status |-> 401, error |-> "Unauthorized"],
              cached |-> got.cached, read |-> got.read]
      ELSE IF got.ok
        THEN [res |-> [status |-> 200,
                       dimensions |-> Cardinality(DOMAIN got.cfg.dimensionBaseEUR)],
              cached |-> got.cached, read |-> got.read]
      ELSE [res |-> [status |-> 500, error |-> got.error],
            cached |-> got.cached, read |-> got.read]

\* POST /admin/reload-config (lines 229-233)
ReloadHandler(header, API_KEY, c, file) ==
  LET got == reloadPricingConfig(c, file)
  IN  IF ~keyMatches(header, API_KEY)
        THEN [res |-> [status |-> 401, error |-> "Unauthorized"],
              cached |-> c, read |-> FALSE]
      ELSE IF got.ok
        THEN [res |-> [status |-> 200,
                       dimensions |-> Cardinality(DOMAIN got.cfg.dimensionBaseEUR)],
              cached |-> got.cached, read |-> got.read]
      ELSE [res |-> [status |-> 500, error |-> got.error],
            cached |-> got.cached, read |-> got.read]

(* ----------------------- requests that are tried ----------------------- *)

Headers == {NoHeader, "devkey123", "wrong", ""}

\* the override part of a request body: a set of override fields, all with
\* numbers (OvPlus, OvMinus) or all with values of another JSON type
ReqOverrideSets ==
  {S \in SUBSET OverrideFields : Cardinality(S) <= 1}
    \cup {OverrideFields, ScenarioDFields}

ReqOverrides ==
  {[val |-> Restrict(ov, S), bad |-> {}] : ov \in {OvPlus, OvMinus}, S \in ReqOverrideSets}
    \cup {[val |-> EmptyObject, bad |-> S] : S \in ReqOverrideSets}

\* the bodies of the four test scenarios, without overrides
ScenarioA ==
  [product_type |-> "dimensioned", dimension |-> "200x100", quantity |-> 2,
   delivery_days |-> 60, advance_payment |-> "none"]

ScenarioB ==
  [product_type |-> "table_only", quantity |-> 4, delivery_days |-> 45,
   advance_payment |-> "50"]

ScenarioC ==
  [product_type |-> "all_in_one", quantity |-> 2, delivery_days |-> 30,
   advance_payment |-> "none"]

ScenarioD ==
  [product_type |-> "dimensioned", dimension |-> "200x100", quantity |-> 4,
   delivery_days |-> 60, advance_payment |-> "none"]

\* the body of the test "supports advance override + unit & line adjustments"
ScenarioDOverrides == Doc(ScenarioD @@ Restrict(OvPlus, ScenarioDFields))

\* bodies without overrides: the scenarios, the defaults left out, an unknown
\* field, dimensions outside the table, and bodies the schema refuses
ReqBases ==
  {Doc(ScenarioA), Doc(ScenarioB), Doc(ScenarioC), Doc(ScenarioD),
   Doc([product_type |-> "table_only", delivery_days |-> 7]),
   Doc([product_type |-> "all_in_one", delivery_days |-> 60, quantity |-> 3,
        note |-> "extra"]),
   Doc([product_type |-> "dimensioned", delivery_days |-> 60]),
   Doc([ScenarioA EXCEPT !.dimension = "999x999"]),
   Doc([ScenarioA EXCEPT !.dimension = "180x90"]),
   Doc([ScenarioA EXCEPT !.dimension = "constructor"]),
   Doc([ScenarioB EXCEPT !.quantity = 1]),
   Doc([ScenarioB EXCEPT !.quantity = 1001]),
   Doc([ScenarioC EXCEPT !.delivery_days = 15]),
   Doc([ScenarioC EXCEPT !.delivery_days = 8]),
   Doc([ScenarioC EXCEPT !.delivery_days = 61]),
   Doc(Without(ScenarioC, {"delivery_days"})),
   [val |-> Without(ScenarioC, {"delivery_days"}), bad |-> {"delivery_days"}],
   Doc([ScenarioC EXCEPT !.product_type = "big_table"]),
   Doc([delivery_days |-> 30]),
   [val |-> [product_type |-> "table_only", delivery_days |-> 30], bad |-> {"quantity"}]}

\* the bases that are also sent with overrides
OverrideBases ==
  {Doc(ScenarioA), Doc(ScenarioB), Doc(ScenarioD),
   Doc([product_type |-> "dimensioned", delivery_days |-> 60]),
   Doc([ScenarioA EXCEPT !.dimension = "999x999"]),
   Doc([ScenarioB EXCEPT !.quantity = 1001])}

WithOverrides(b, ov) == [val |-> b.val @@ ov.val, bad |-> b.bad \cup ov.bad]

Bodies ==
  ReqBases \cup {WithOverrides(b, ov) : b \in OverrideBases, ov \in ReqOverrides}

(* ------------- src/services/googleSheets.ts: the spreadsheet ----------- *)

\* a cell holds a number (<<n>>) or something parseFloat makes NaN of (<<>>)
\* parseFloat(cell.value) || 0
CellNumber(cell) == IF IsNum(cell) THEN cell[1] ELSE 0

ValidDimensions ==
  {"140 x 70", "140 x 80", "140 x 90", "140 x 100",
   "160 x 70", "160 x 80", "160 x 90", "160 x 100",
   "180 x 70", "180 x 80", "180 x 90", "180 x 100",
   "200 x 70", "200 x 80", "200 x 90", "200 x 100"}

\* getBigTableBasePrice: column C of Big_Table, one row per dimension
getBigTableBasePrice(cells, dimension) == CellNumber(cells.big.C[dimension])

getBigTableDiscounts(cells) ==
  [startupFactory |-> CellNumber(cells.big.E2),
   fastOrder7Days |-> CellNumber(cells.big.E3),
   advancePayment50 |-> CellNumber(cells.big.E4),
   advancePayment100 |-> CellNumber(cells.big.E5),
   quantity2Plus |-> CellNumber(cells.big.E6)]

getBigTableDeliveryFee(cells, deliveryDays) ==
  IF deliveryDays <= 30 THEN CellNumber(cells.big.E11)
  ELSE IF deliveryDays <= 45 THEN CellNumber(cells.big.E10)
  ELSE CellNumber(cells.big.E9)

\* calculateBigTablePrice after ensureFreshData (lines 89-170); quantity in
\* halves, so total_price rounds a half-euro amount
calculateBigTablePrice(params, cells) ==
  LET dimensionPrice == getBigTableBasePrice(cells, params.dimension)
      deliveryFee == getBigTableDeliveryFee(cells, params.delivery_days)
      basePrice == dimensionPrice
      discounts == getBigTableDiscounts(cells)
      advanceDiscount ==
        IF params.advance_payment >= 100 THEN discounts.advancePayment100
        ELSE IF params.advance_payment >= 50 THEN discounts.advancePayment50
        ELSE 0
      quantityDiscount == IF params.quantity >= 4 THEN discounts.quantity2Plus ELSE 0
      totalDiscounts ==
        (IF params.is_startup_factory THEN discounts.startupFactory ELSE 0)
        + (IF params.is_fast_order /\ params.delivery_days <= 7
             THEN discounts.fastOrder7Days ELSE 0)
        + advanceDiscount
        + quantityDiscount
      stepPrice ==
        basePrice
        - (IF params.is_startup_factory THEN discounts.startupFactory ELSE 0)
        + (IF params.include_delivery THEN deliveryFee ELSE 0)
        - advanceDiscount
        - (IF params.is_fast_order THEN discounts.fastOrder7Days ELSE 0)
        - quantityDiscount
      pricePerUnit == stepPrice
  IN  IF dimensionPrice = 0
        THEN [ok |-> FALSE, error |-> "Price not found for dimension"]
        ELSE [ok |-> TRUE,
              value |->
                [base_price |-> basePrice,
                 discounts_applied |-> totalDiscounts,
                 delivery_fee |-> deliveryFee,
                 price_per_unit |-> pricePerUnit,
                 quantity |-> params.quantity,
                 total_price |-> MathRound(pricePerUnit * params.quantity),
                 dimension |-> params.dimension,
                 delivery_days |-> params.delivery_days,
                 advance_payment |-> params.advance_payment]]

getAllInOneBasePrice(cells, hasCuttingBoard, hasWaterPackage) ==
  IF ~hasCuttingBoard /\ ~hasWaterPackage THEN CellNumber(cells.aio.C2)
  ELSE IF hasCuttingBoard /\ ~hasWaterPackage THEN CellNumber(cells.aio.C3)
  ELSE IF ~hasCuttingBoard /\ hasWaterPackage THEN CellNumber(cells.aio.C4)
  ELSE CellNumber(cells.aio.C5)

getPackageType(hasCuttingBoard, hasWaterPackage) ==
  IF ~hasCuttingBoard /\ ~hasWaterPackage THEN "raw_table"
  ELSE IF hasCuttingBoard /\ ~hasWaterPackage THEN "cutting_board_package"
  ELSE IF ~hasCuttingBoard /\ hasWaterPackage THEN "water_package"
  ELSE "all_in_one"

getAllInOneDiscounts(cells) ==
  [startupFactory |-> CellNumber(cells.aio.E2),
   firstOrderRawTable |-> CellNumber(cells.aio.E3),
   firstOrderAllInOne |-> CellNumber(cells.aio.E4),
   advancePayment50 |-> CellNumber(cells.aio.E5),
   advancePayment100 |-> CellNumber(cells.aio.E6),
   quantity2Plus |-> CellNumber(cells.aio.E7)]

getAllInOneDeliveryFee(cells, deliveryDays) ==
  IF deliveryDays <= 30 THEN CellNumber(cells.aio.E12)
  ELSE IF deliveryDays <= 45 THEN CellNumber(cells.aio.E11)
  ELSE CellNumber(cells.aio.E10)

\* calculateAllInOnePrice after ensureFreshData (lines 256-343)
calculateAllInOnePrice(params, cells) ==
  LET packagePrice ==
        getAllInOneBasePrice(cells, params.has_cutting_board, params.has_water_package)
      packageType == getPackageType(params.has_cutting_board, params.has_water_package)
      deliveryFee == getAllInOneDeliveryFee(cells, params.delivery_days)
      basePrice == packagePrice
      discounts == getAllInOneDiscounts(cells)
      firstOrderDiscount ==
        IF ~params.is_first_order THEN 0
        ELSE IF packageType = "all_in_one" THEN discounts.firstOrderAllInOne
        ELSE discounts.firstOrderRawTable
      advanceDiscount ==
        IF params.advance_payment >= 100 THEN discounts.advancePayment100
        ELSE IF params.advance_payment >= 50 THEN discounts.advancePayment50
        ELSE 0
      quantityDiscount == IF params.quantity >= 4 THEN discounts.quantity2Plus ELSE 0
      totalDiscounts ==
        (IF params.is_startup_factory THEN discounts.startupFactory ELSE 0)
        + firstOrderDiscount + advanceDiscount + quantityDiscount
      stepPrice ==
        basePrice
        - (IF params.is_startup_factory THEN discounts.startupFactory ELSE 0)
        + (IF params.include_delivery THEN deliveryFee ELSE 0)
        - advanceDiscount - firstOrderDiscount - quantityDiscount
      pricePerUnit == stepPrice
  IN  [ok |-> TRUE,
       value |->
         [base_price |-> basePrice,
          package_type |-> packageType,
          discounts_applied |-> totalDiscounts,
          delivery_fee |-> deliveryFee,
          price_per_unit |-> pricePerUnit,
          quantity |-> params.quantity,
          total_price |-> MathRound(pricePerUnit * params.quantity),
          has_cutting_board |-> params.has_cutting_board,
          has_water_package |-> params.has_water_package,
          delivery_days |-> params.delivery_days,
          advance_payment |-> params.advance_payment]]

\* The service object: bound says that bigTableSheet and allInOneSheet are
\* assigned, loaded holds the cells last loaded (<<>> before the first load),
\* initialized is PriceCalculatorService.initialized, and sinceRefresh is
\* Date.now() - lastRefresh in milliseconds, kept up to cacheTimeout + 1 (any
\* larger value behaves alike).  The spreadsheet at Google is `remote`:
\* reachable or not, with both sheets or not, its cells loadable or not
\* (loadInfo and loadCells are separate calls to Google), and cells.

\* line 10 of googleSheets.ts
cacheTimeout == 30000

\* lastRefresh = 0 of line 9: the epoch, long ago
NeverRefreshed == cacheTimeout + 1

\* refreshSheetData: loadCells on both sheets, then lastRefresh = Date.now();
\* reloaded says that loadCells was called
refreshSheetData(svc, remote) ==
  IF ~svc.bound
    THEN [ok |-> FALSE, error |-> "TypeError: loadCells of undefined", svc |-> svc,
          reloaded |-> FALSE]
  ELSE IF ~remote.reachable \/ ~remote.loadable
    THEN [ok |-> FALSE, error |-> "loadCells failed", svc |-> svc, reloaded |-> TRUE]
  ELSE [ok |-> TRUE,
        svc |-> [svc EXCEPT !.loaded = <<remote.cells>>, !.sinceRefresh = 0],
        reloaded |-> TRUE]

\* GoogleSheetsService.initialize (lines 25-49)
GoogleSheetsInitialize(svc, remote) ==
  IF ~remote.reachable
    THEN [ok |-> FALSE, error |-> "loadInfo failed", svc |-> svc, reloaded |-> FALSE]
  ELSE IF ~remote.hasSheets
    THEN [ok |-> FALSE, error |-> "Sheet not found",
          svc |-> [svc EXCEPT !.bound = FALSE], reloaded |-> FALSE]
  ELSE refreshSheetData([svc EXCEPT !.bound = TRUE], remote)

\* PriceCalculatorService.initialize (part_002 lines 43-48), run to its end
PriceCalculatorInitialize(svc, remote) ==
  LET r == GoogleSheetsInitialize(svc, remote)
  IN  IF svc.initialized THEN [ok |-> TRUE, svc |-> svc, reloaded |-> FALSE]
      ELSE IF r.ok
        THEN [ok |-> TRUE, svc |-> [r.svc EXCEPT !.initialized = TRUE],
              reloaded |-> r.reloaded]
      ELSE [ok |-> FALSE, error |-> r.error, svc |-> r.svc, reloaded |-> r.reloaded]

\* ensureFreshData (lines 61-67): refresh when the cells are older than
\* cacheTimeout
ensureFreshData(svc, remote) ==
  IF svc.sinceRefresh > cacheTimeout
    THEN refreshSheetData(svc, remote)
    ELSE [ok |-> TRUE, svc |-> svc, reloaded |-> FALSE]

\* forceRefresh (lines 70-74)
forceRefresh(svc, remote) == refreshSheetData(svc, remote)

(* --------- part_002 (services/priceCalculator.ts): the calculator ------ *)

SheetProductTypes == {"big_table", "all_in_one"}

PriceRequestFields ==
  {"product_type", "dimension", "is_fast_order", "include_delivery",
   "has_cutting_board", "has_water_package", "is_first_order", "quantity",
   "delivery_days", "advance_payment", "is_startup_factory"}

\* the fields PriceRequestSchema rejects (quantity in halves)
PriceRequestErrors(body) ==
  LET v == body.val
  IN  (body.bad \cap PriceRequestFields)
      \cup (IF Has(v, "product_type") /\ v.product_type \in SheetProductTypes
              THEN {} ELSE {"product_type"})
      \cup (IF Has(v, "quantity") /\ (v.quantity < 2 \/ v.quantity > 1000)
              THEN {"quantity"} ELSE {})
      \cup (IF Has(v, "delivery_days") /\ v.delivery_days >= 7 /\ v.delivery_days <= 60
              THEN {} ELSE {"delivery_days"})
      \cup (IF Has(v, "advance_payment")
                 /\ (v.advance_payment < 0 \/ v.advance_payment > 100)
              THEN {"advance_payment"} ELSE {})

PriceRequestData(body) ==
  Restrict(body.val, PriceRequestFields)
    @@ [is_fast_order |-> FALSE, include_delivery |-> TRUE,
        has_cutting_board |-> FALSE, has_water_package |-> FALSE,
        is_first_order |-> FALSE, quantity |-> 2, advance_payment |-> 0,
        is_startup_factory |-> TRUE]

PriceRequestSchema(body) ==
  IF PriceRequestErrors(body) = {}
    THEN [success |-> TRUE, data |-> PriceRequestData(body)]
    ELSE [success |-> FALSE, fieldErrors |-> PriceRequestErrors(body)]

\* PriceCalculatorService.calculatePrice (part_002 lines 50-118): initialize,
\* then the product's calculation, which begins with ensureFreshData.  Both
\* sheets are loaded in one step, and calculation_timestamp is left out.
PriceCalculatorCalculate(request, svc, remote) ==
  LET init == PriceCalculatorInitialize(svc, remote)
      fresh == ensureFreshData(init.svc, remote)
      out == IF request.product_type = "big_table"
               THEN calculateBigTablePrice(request, fresh.svc.loaded[1])
               ELSE calculateAllInOnePrice(request, fresh.svc.loaded[1])
  IN  IF ~init.ok
        THEN [ok |-> FALSE, error |-> init.error, svc |-> init.svc,
              reloaded |-> init.reloaded]
      ELSE IF request.product_type = "big_table"
                /\ (~Has(request, "dimension") \/ request.dimension = "")
        THEN [ok |-> FALSE, error |-> "Dimension is required", svc |-> init.svc,
              reloaded |-> init.reloaded]
      ELSE IF request.product_type = "big_table"
                /\ request.dimension \notin ValidDimensions
        THEN [ok |-> FALSE, error |-> "Invalid dimension", svc |-> init.svc,
              reloaded |-> init.reloaded]
      ELSE IF ~fresh.ok
        THEN [ok |-> FALSE, error |-> fresh.error, svc |-> fresh.svc,
              reloaded |-> init.reloaded \/ fresh.reloaded]
      ELSE IF ~out.ok
        THEN [ok |-> FALSE, error |-> out.error, svc |-> fresh.svc,
              reloaded |-> init.reloaded \/ fresh.reloaded]
      ELSE [ok |-> TRUE,
            value |-> [success |-> TRUE, product_type |-> request.product_type]
                        @@ out.value,
            svc |-> fresh.svc,
            reloaded |-> init.reloaded \/ fresh.reloaded]

\* POST /price/sheets (src/app.ts lines 79-105); up says that priceCalculator
\* is not null.  The timestamp of the result is left out.
PostPriceSheetsHandler(body, up, svc, remote) ==
  LET parsed == PriceRequestSchema(body)
      out == PriceCalculatorCalculate(parsed.data, svc, remote)
  IN  IF ~up
        THEN [res |-> [status |-> 503,
                       error |-> "Google Sheets price calculator not available"],
              svc |-> svc, steps |-> <<>>, reloaded |-> FALSE]
      ELSE IF ~parsed.success
        THEN [res |-> [status |-> 400, error |-> "Invalid payload",
                       details |-> parsed.fieldErrors],
              svc |-> svc, steps |-> <<"safeParse">>, reloaded |-> FALSE]
      ELSE IF ~out.ok
        THEN [res |-> [status |-> 500, error |-> out.error],
              svc |-> out.svc, steps |-> <<"safeParse", "calculatePrice">>,
              reloaded |-> out.reloaded]
      ELSE [res |-> [status |-> 200, body |-> out.value],
            svc |-> out.svc, steps |-> <<"safeParse", "calculatePrice">>,
            reloaded |-> out.reloaded]

\* POST /refresh-cache (src/app.ts lines 108-126): forceRefreshCache, which
\* is forceRefresh
PostRefreshCacheHandler(up, svc, remote) ==
  LET r == forceRefresh(svc, remote)
  IN  IF ~up
        THEN [res |-> [status |-> 503, error |-> "Price calculator not available"],
              svc |-> svc, reloaded |-> FALSE]
      ELSE IF ~r.ok
        THEN [res |-> [status |-> 500, error |-> r.error], svc |-> r.svc,
              reloaded |-> r.reloaded]
      ELSE [res |-> [status |-> 200, success |-> TRUE], svc |-> r.svc,
            reloaded |-> r.reloaded]

(* ---------------- spreadsheets and sheet requests tried ---------------- *)

\* a spreadsheet: 200 x 100 costs 1170, the cell of 140 x 70 is empty
CellsA ==
  [big |-> [C |-> [d \in ValidDimensions |->
                     IF d = "200 x 100" THEN Num(1170)
                     ELSE IF d = "140 x 70" THEN NaN ELSE Num(900)],
            E2 |-> Num(25), E3 |-> Num(50), E4 |-> Num(50), E5 |-> Num(100),
            E6 |-> Num(25), E9 |-> Num(25), E10 |-> Num(100), E11 |-> Num(200)],
   aio |-> [C2 |-> Num(430), C3 |-> Num(600), C4 |-> Num(700), C5 |-> Num(900),
            E2 |-> Num(25), E3 |-> Num(50), E4 |-> Num(150), E5 |-> Num(50),
            E6 |-> Num(100), E7 |-> Num(25),
            E10 |-> Num(25), E11 |-> Num(100), E12 |-> Num(200)]]

\* the spreadsheet after an edit of two cells
CellsB ==
  [CellsA EXCEPT !.big.E2 = Num(30), !.aio.C5 = Num(950)]

Remote(cells) ==
  [reachable |-> TRUE, hasSheets |-> TRUE, loadable |-> TRUE, cells |-> cells]

Unreachable == [Remote(CellsA) EXCEPT !.reachable = FALSE]

NoSheets == [Remote(CellsA) EXCEPT !.hasSheets = FALSE]

\* loadInfo answers, loadCells fails
NoCells == [Remote(CellsA) EXCEPT !.loadable = FALSE]

Remotes == {Remote(CellsA), Remote(CellsB), Unreachable, NoSheets, NoCells}

Optional(f, values) == {EmptyObject} \cup {f :> v : v \in values}

BigTableBodies ==
  {Doc([product_type |-> "big_table", delivery_days |-> days] @@ dim @@ fast @@ incl @@ qty @@ adv) :
     days \in {7, 30, 60},
     dim \in Optional("dimension", {"200 x 100", "140 x 70", "200x100"}),
     fast \in Optional("is_fast_order", {TRUE}),
     incl \in Optional("include_delivery", {FALSE}),
     qty \in Optional("quantity", {4}),
     adv \in Optional("advance_payment", {50, 100})}

AllInOneBodies ==
  {Doc([product_type |-> "all_in_one", delivery_days |-> days] @@ cut @@ water @@ first @@ qty) :
     days \in {7, 45},
     cut \in Optional("has_cutting_board", {TRUE}),
     water \in Optional("has_water_package", {TRUE}),
     first \in Optional("is_first_order", {TRUE}),
     qty \in Optional("quantity", {3})}

RefusedSheetBodies ==
  {Doc([product_type |-> "dimensioned", delivery_days |-> 30]),
   Doc([product_type |-> "big_table", dimension |-> "200 x 100", delivery_days |-> 3]),
   [val |-> [product_type |-> "all_in_one", delivery_days |-> 30], bad |-> {"is_first_order"}]}

SheetBodies == BigTableBodies \cup AllInOneBodies \cup RefusedSheetBodies

(* ------- src/email.ts, src/email-mailjet.ts: the inquiry e-mails ------- *)

\* src/app.ts imports sendInquiryEmail from "./email".  The repository holds
\* two modules that export it: src/email.ts (nodemailer) and
\* src/email-mailjet.ts (Mailjet), the only one that also exports the
\* testEmailConnection that app.ts imports.  Which of them a deployment links
\* is its `mailer`.

\* the address of the sales team (email.ts line 164, email-mailjet.ts line 244)
SalesAddress == "office-international@ampm.si"

\* !obj.f of JavaScript for a string field
Falsy(obj, f) == ~Has(obj, f) \/ obj[f] = ""

\* inquiry.product_type.replace(...) of lines 53-55 throws a TypeError when
\* product_type is undefined
ProductTypeThrows(inquiry) == ~Has(inquiry, "product_type")

\* sendInquiryEmail of src/email.ts (lines 52-176): the two templates, then
\* the message to the company, then the message to the customer.  accepted[i]
\* says whether the transport accepts the i-th message; the result holds the
\* recipients of the messages dispatched, in order.
sendInquiryEmail(inquiry, priceBreakdown, accepted) ==
  IF ProductTypeThrows(inquiry)
    THEN [ok |-> FALSE, error |-> "TypeError", sent |-> <<>>]
  ELSE IF priceBreakdown # <<>> /\ ~Has(priceBreakdown[1], "adjustments")
    THEN [ok |-> FALSE, error |-> "TypeError", sent |-> <<>>]
  ELSE IF ~accepted[1]
    THEN [ok |-> FALSE, error |-> "sendMail failed", sent |-> <<>>]
  ELSE IF ~accepted[2]
    THEN [ok |-> FALSE, error |-> "sendMail failed", sent |-> <<SalesAddress>>]
  ELSE [ok |-> TRUE, sent |-> <<SalesAddress, inquiry.email>>]

\* sendInquiryEmail of src/email-mailjet.ts (lines 118-271): the message to
\* the company only; the confirmation to the customer is commented out
\* (lines 251-263).  keys says that MJ_APIKEY_PUBLIC and MJ_APIKEY_PRIVATE
\* are set; EMAIL_TO is left at its default.
sendInquiryEmailMailjet(inquiry, priceBreakdown, keys, accepted) ==
  IF ~keys
    THEN [ok |-> FALSE, error |-> "Mailjet configuration missing", sent |-> <<>>]
  ELSE IF Falsy(inquiry, "name") \/ Falsy(inquiry, "email") \/ Falsy(inquiry, "inquiryId")
    THEN [ok |-> FALSE, error |-> "Invalid inquiry data", sent |-> <<>>]
  ELSE IF ProductTypeThrows(inquiry)
    THEN [ok |-> FALSE, error |-> "TypeError", sent |-> <<>>]
  ELSE IF ~accepted[1]
    THEN [ok |-> FALSE, error |-> "Mailjet email sending failed", sent |-> <<>>]
  ELSE [ok |-> TRUE, sent |-> <<SalesAddress>>]

\* POST /api/send-inquiry (src/app.ts lines 175-199)
PostSendInquiryHandler(body, mailer, accepted) ==
  LET inquiry == body.val.inquiry
      priceBreakdown ==
        IF Has(body.val, "priceBreakdown") THEN <<body.val.priceBreakdown>> ELSE <<>>
      sending ==
        IF mailer.module = "email"
          THEN sendInquiryEmail(inquiry, priceBreakdown, accepted)
          ELSE sendInquiryEmailMailjet(inquiry, priceBreakdown, mailer.keys, accepted)
  IN  IF ~Has(body.val, "inquiry") \/ Falsy(inquiry, "name") \/ Falsy(inquiry, "email")
        THEN [res |-> [status |-> 400, error |-> "Missing required inquiry data"],
              sent |-> <<>>]
      ELSE IF ~sending.ok
        THEN [res |-> [status |-> 500, error |-> "Failed to send inquiry email",
                       details |-> sending.error],
              sent |-> sending.sent]
      ELSE [res |-> [status |-> 200, ok |-> TRUE,
                     message |-> "Inquiry sent successfully"],
            sent |-> sending.sent]

(* ------------------------- inquiries tried ----------------------------- *)

Mailers ==
  {[module |-> "email", keys |-> FALSE],
   [module |-> "email-mailjet", keys |-> TRUE],
   [module |-> "email-mailjet", keys |-> FALSE]}

Inquiries ==
  {name @@ email @@ id @@ type :
     name \in Optional("name", {"", "Ana"}),
     email \in Optional("email", {"ana@example.com", "bo@example.org"}),
     id \in Optional("inquiryId", {"INQ-1"}),
     type \in Optional("product_type", {"dimensioned", "big_table"})}

\* the breakdown of POST /price (with adjustments) and the one of
\* POST /price/sheets (without)
PriceBreakdowns ==
  {[base |-> 1170, adjustments |-> [startup_discount |-> 25], total |-> 1120],
   [base_price |-> 1170, discounts_applied |-> 25, total_price |-> 1345]}

InquiryBodies ==
  {Doc(inq @@ pb) :
     inq \in Optional("inquiry", Inquiries),
     pb \in Optional("priceBreakdown", PriceBreakdowns)}

(* ------------------------------- state --------------------------------- *)

VARIABLES
  API_KEY,      \* process.env.API_KEY ("" when unset)
  source,       \* the pricing file on disk
  cached,       \* the loader's module-level cache
  stage,        \* "idle", "pending" (a request has arrived), "done" (answered)
  op,           \* the endpoint of the request in flight
  req,          \* the request in flight: [body, header]
  res,          \* its response, once done
  steps,        \* the steps its handler ran, in order
  cachedBefore, \* the cache as its handler found it
  didRead,      \* whether its handler read the pricing file
  calculatorUp, \* priceCalculator is not null (the Google settings are there)
  svc,          \* the spreadsheet service: [initialized, bound, loaded]
  remote,       \* the spreadsheet at Google
  pc,           \* pricing-engine run: "idle", "start", "done" or "again"
  pInput,       \* the schema-valid order handed to the engine run
  pAllow,       \* the privilege boolean handed to sanitizeOverrides
  pCfg,         \* the rule set in force for the engine run
  pPayload,     \* what sanitizeOverrides returned
  pOut,         \* what calculatePrice returned
  pAgain,       \* what a second calculatePrice call on the same payload returned
  mailer,       \* the e-mail module the deployment links, and its Mailjet keys
  outbox,       \* recipients of the messages dispatched for the request in flight
  svcBefore,    \* the spreadsheet service as the handler of the request found it
  didReload,    \* whether that handler called loadCells on the sheets
  calls,        \* concurrent calculatePrice calls: where each of them stands
  initializeCalls \* how many times GoogleSheetsService.initialize was entered

engineVars == <<pc, pInput, pAllow, pCfg, pPayload, pOut, pAgain>>

serviceVars ==
  <<API_KEY, source, cached, stage, op, req, res, steps, cachedBefore, didRead>>

sheetVars == <<calculatorUp, svc, remote>>

inquiryVars == <<mailer, outbox>>

sheetRequestVars == <<svcBefore, didReload>>

callVars == <<calls, initializeCalls>>

vars ==
  <<API_KEY, source, cached, stage, op, req, res, steps, cachedBefore, didRead,
    calculatorUp, svc, remote, pc, pInput, pAllow, pCfg, pPayload, pOut, pAgain,
    mailer, outbox, svcBefore, didReload, calls, initializeCalls>>

NoRequest == [body |-> Doc(EmptyObject), header |-> NoHeader]

NoResponse == [status |-> 0]

\* the spreadsheet service as constructed
NoService ==
  [initialized |-> FALSE, bound |-> FALSE, loaded |-> <<>>,
   sinceRefresh |-> NeverRefreshed]

\* no request in flight
Idle ==
  /\ stage = "idle"
  /\ op = "none"
  /\ req = NoRequest
  /\ res = NoResponse
  /\ steps = <<>>
  /\ cachedBefore = NoCache
  /\ didRead = FALSE
  /\ svcBefore = NoService
  /\ didReload = FALSE

\* the service before its first request: nothing cached, the reference file
\* on disk, API_KEY set or not
ServiceStart ==
  /\ API_KEY \in {"", "devkey123"}
  /\ source = RefFile
  /\ cached = NoCache
  /\ Idle

\* the spreadsheet service before its first request
SheetsStart ==
  /\ svc = NoService
  /\ remote = Remote(CellsA)

\* no inquiry is handled: the nodemailer module, nothing dispatched
InquiryIdle ==
  /\ mailer = [module |-> "email", keys |-> FALSE]
  /\ outbox = <<>>

\* no calculatePrice call is under way
CallsIdle ==
  /\ calls = <<>>
  /\ initializeCalls = 0

EngineIdle ==
  /\ pc = "idle"
  /\ pInput = EmptyObject
  /\ pAllow = FALSE
  /\ pCfg = RefCfg
  /\ pPayload = EmptyObject
  /\ pOut = [ok |-> FALSE, error |-> "not run"]
  /\ pAgain = [ok |-> FALSE, error |-> "not run"]

(* ------------------- specification of the service (Spec) --------------- *)

Init ==
  /\ ServiceStart /\ SheetsStart /\ calculatorUp = FALSE /\ EngineIdle
  /\ InquiryIdle /\ CallsIdle

\* a request arrives; requests are handled one at a time
Arrive(endpoint, body, header) ==
  /\ stage = "idle"
  /\ stage' = "pending"
  /\ op' = endpoint
  /\ req' = [body |-> body, header |-> header]
  /\ UNCHANGED <<API_KEY, source, cached, res, steps, cachedBefore, didRead>>
  /\ UNCHANGED <<engineVars, sheetVars, inquiryVars, sheetRequestVars, callVars>>

\* the handler's outcome h becomes the response and the new cache
Answer(h, ran) ==
  /\ stage' = "done"
  /\ res' = h.res
  /\ steps' = ran
  /\ cachedBefore' = cached
  /\ cached' = h.cached
  /\ didRead' = h.read
  /\ UNCHANGED <<API_KEY, source, op, req>>
  /\ UNCHANGED <<engineVars, sheetVars, inquiryVars, sheetRequestVars, callVars>>

PostPrice ==
  /\ stage = "pending" /\ op = "POST /price"
  /\ LET h == PostPriceHandler(req.body, req.header, API_KEY, cached, source)
     IN  Answer(h, h.steps)

GetHealthz ==
  /\ stage = "pending" /\ op = "GET /healthz"
  /\ Answer(HealthzHandler(cached, source), <<"configSignature">>)

PostAdminReload ==
  /\ stage = "pending" /\ op = "POST /admin/reload-config"
  /\ LET h == ReloadHandler(req.header, API_KEY, cached, source)
     IN  Answer(h, IF h.res.status = 401 THEN <<>> ELSE <<"reloadPricingConfig">>)

\* the response has gone out
Respond ==
  /\ stage = "done"
  /\ stage' = "idle"
  /\ op' = "none"
  /\ req' = NoRequest
  /\ res' = NoResponse
  /\ steps' = <<>>
  /\ cachedBefore' = NoCache
  /\ didRead' = FALSE
  /\ outbox' = <<>>
  /\ svcBefore' = NoService
  /\ didReload' = FALSE
  /\ UNCHANGED <<API_KEY, source, cached, mailer>>
  /\ UNCHANGED <<engineVars, sheetVars, callVars>>

\* somebody edits, replaces or removes the pricing file (the handlers are
\* synchronous, so an edit falls between two requests)
EditSource(file) ==
  /\ stage = "idle"
  /\ file # source
  /\ source' = file
  /\ UNCHANGED <<API_KEY, cached, stage, op, req, res, steps, cachedBefore, didRead>>
  /\ UNCHANGED <<engineVars, sheetVars, inquiryVars, sheetRequestVars, callVars>>

Next ==
  \/ \E body \in Bodies, header \in Headers : Arrive("POST /price", body, header)
  \/ Arrive("GET /healthz", Doc(EmptyObject), NoHeader)
  \/ \E header \in Headers : Arrive("POST /admin/reload-config", Doc(EmptyObject), header)
  \/ PostPrice
  \/ GetHealthz
  \/ PostAdminReload
  \/ Respond
  \/ \E file \in Files : EditSource(file)

Spec == Init /\ [][Next]_vars

(* ----------- specification of the pure functions (SpecPrice) ----------- *)

\* one priced order: lines 69-72 of src/app.ts on inputs drawn from bounded
\* sets, with the privilege boolean and the rule set as free inputs
InitPrice ==
  /\ ServiceStart
  /\ SheetsStart
  /\ calculatorUp = FALSE
  /\ InquiryIdle
  /\ CallsIdle
  /\ API_KEY = ""
  /\ pc = "start"
  /\ pInput \in {o @@ ov : o \in PlainOrders, ov \in Overrides}
  /\ pAllow \in BOOLEAN
  /\ pCfg \in RuleSets
  /\ pPayload = EmptyObject
  /\ pOut = [ok |-> FALSE, error |-> "not run"]
  /\ pAgain = [ok |-> FALSE, error |-> "not run"]

PriceOrder ==
  /\ pc = "start"
  /\ pPayload' = sanitizeOverrides(pInput, pAllow)
  /\ pOut' = calculatePrice(sanitizeOverrides(pInput, pAllow), pCfg)
  /\ pc' = "done"
  /\ UNCHANGED <<pInput, pAllow, pCfg, pAgain>>
  /\ UNCHANGED <<serviceVars, sheetVars, inquiryVars, sheetRequestVars, callVars>>

\* mutant: the second call adds to a module-level running total
PriceAgain_Accumulates ==
  /\ pc = "done"
  /\ pAgain' =
       LET out == calculatePrice(pPayload, pCfg)
       IN  IF out.ok /\ IsNum(out.value.total)
             THEN [out EXCEPT !.value.total = Num(@[1] + pOut.value.total[1])]
             ELSE out
  /\ pc' = "again"
  /\ UNCHANGED <<pInput, pAllow, pCfg, pPayload, pOut>>
  /\ UNCHANGED <<serviceVars, sheetVars, inquiryVars, sheetRequestVars, callVars>>

\* calculatePrice is called once more with the same payload, the same rule
\* set in force
PriceAgain ==
  /\ pc = "done"
  /\ pAgain' = calculatePrice(pPayload, pCfg)
  /\ pc' = "again"
  /\ UNCHANGED <<pInput, pAllow, pCfg, pPayload, pOut>>
  /\ UNCHANGED <<serviceVars, sheetVars, inquiryVars, sheetRequestVars, callVars>>

NextPrice == PriceOrder \/ PriceAgain

SpecPrice == InitPrice /\ [][NextPrice]_vars

(* ------ specification of the two pricing entry points (SpecSheets) ----- *)

\* POST /price/sheets and POST /refresh-cache beside POST /price; the pricing
\* file is not edited here, the spreadsheet is
InitSheets ==
  /\ ServiceStart
  /\ SheetsStart
  /\ calculatorUp \in BOOLEAN
  /\ EngineIdle
  /\ InquiryIdle
  /\ CallsIdle

\* the handler's outcome h becomes the response and the service's new state
AnswerSheets(h, ran) ==
  /\ stage' = "done"
  /\ res' = h.res
  /\ steps' = ran
  /\ svc' = h.svc
  /\ svcBefore' = svc
  /\ didReload' = h.reloaded
  /\ UNCHANGED <<API_KEY, source, cached, op, req, cachedBefore, didRead>>
  /\ UNCHANGED <<calculatorUp, remote>>
  /\ UNCHANGED <<engineVars, inquiryVars, callVars>>

PostPriceSheets ==
  /\ stage = "pending" /\ op = "POST /price/sheets"
  /\ LET h == PostPriceSheetsHandler(req.body, calculatorUp, svc, remote)
     IN  AnswerSheets(h, h.steps)

PostRefreshCache ==
  /\ stage = "pending" /\ op = "POST /refresh-cache"
  /\ AnswerSheets(PostRefreshCacheHandler(calculatorUp, svc, remote),
                  IF calculatorUp THEN <<"forceRefreshCache">> ELSE <<>>)

\* somebody edits the spreadsheet, or Google becomes (un)reachable
EditSheet(r) ==
  /\ stage = "idle"
  /\ r # remote
  /\ remote' = r
  /\ UNCHANGED serviceVars
  /\ UNCHANGED <<calculatorUp, svc>>
  /\ UNCHANGED <<engineVars, inquiryVars, sheetRequestVars, callVars>>

\* time passes between two requests
Elapse(ms) ==
  /\ stage = "idle"
  /\ svc.sinceRefresh <= cacheTimeout
  /\ svc' = [svc EXCEPT !.sinceRefresh = Min(@ + ms, cacheTimeout + 1)]
  /\ UNCHANGED serviceVars
  /\ UNCHANGED <<calculatorUp, remote>>
  /\ UNCHANGED <<engineVars, inquiryVars, sheetRequestVars, callVars>>

ScenarioBodies == {Doc(ScenarioA), Doc(ScenarioB), Doc(ScenarioC), ScenarioDOverrides}

NextSheets ==
  \/ \E body \in SheetBodies : Arrive("POST /price/sheets", body, NoHeader)
  \/ Arrive("POST /refresh-cache", Doc(EmptyObject), NoHeader)
  \/ \E body \in ScenarioBodies, header \in {NoHeader, "devkey123"} :
       Arrive("POST /price", body, header)
  \/ PostPriceSheets
  \/ PostRefreshCache
  \/ PostPrice
  \/ Respond
  \/ \E r \in Remotes : EditSheet(r)
  \/ \E ms \in {10000, 20000} : Elapse(ms)

SpecSheets == InitSheets /\ [][NextSheets]_vars

(* --------- specification of the inquiry endpoint (SpecInquiry) --------- *)

\* POST /api/send-inquiry under either e-mail module
InitInquiry ==
  /\ ServiceStart
  /\ SheetsStart
  /\ calculatorUp = FALSE
  /\ EngineIdle
  /\ CallsIdle
  /\ mailer \in Mailers
  /\ outbox = <<>>

\* the handler runs to its response; the transport accepts or refuses each
\* message handed to it
PostSendInquiry(accepted) ==
  /\ stage = "pending" /\ op = "POST /api/send-inquiry"
  /\ LET h == PostSendInquiryHandler(req.body, mailer, accepted)
     IN  /\ res' = h.res
         /\ outbox' = h.sent
  /\ stage' = "done"
  /\ steps' = <<"sendInquiryEmail">>
  /\ UNCHANGED <<API_KEY, source, cached, op, req, cachedBefore, didRead, mailer>>
  /\ UNCHANGED <<engineVars, sheetVars, sheetRequestVars, callVars>>

NextInquiry ==
  \/ \E body \in InquiryBodies : Arrive("POST /api/send-inquiry", body, NoHeader)
  \/ \E accepted \in [1 .. 2 -> BOOLEAN] : PostSendInquiry(accepted)
  \/ Respond

SpecInquiry == InitInquiry /\ [][NextInquiry]_vars

(* ------ specification of concurrent price calculations (SpecCalls) ----- *)

\* PriceCalculatorService.calculatePrice is async: a call runs up to its next
\* await, and other calls run while it waits for Google.  A call stands at
\* "start" (line 51 not yet run), "loadInfo" (in GoogleSheetsService.initialize,
\* waiting at line 28), "loadCells" (waiting at line 43), "resume" (initialize
\* has returned, line 46 of part_002 not yet run), "calculate" (initialized,
\* the calculation itself to come), "done" or "failed".
InitCalls ==
  /\ ServiceStart
  /\ SheetsStart
  /\ calculatorUp = TRUE
  /\ EngineIdle
  /\ InquiryIdle
  /\ calls = [i \in 1 .. MaxCalls |-> "start"]
  /\ initializeCalls = 0

CallStep(i, from, to) ==
  /\ calls[i] = from
  /\ calls' = [calls EXCEPT ![i] = to]
  /\ UNCHANGED <<serviceVars, calculatorUp, remote>>
  /\ UNCHANGED <<engineVars, inquiryVars, sheetRequestVars>>

\* part_002 lines 43-45: the flag is read; when it is not set,
\* GoogleSheetsService.initialize is entered and runs up to loadInfo
CallInitialize(i) ==
  /\ IF svc.initialized
       THEN CallStep(i, "start", "calculate") /\ UNCHANGED initializeCalls
       ELSE CallStep(i, "start", "loadInfo") /\ initializeCalls' = initializeCalls + 1
  /\ UNCHANGED svc

\* googleSheets.ts lines 28-43: loadInfo has answered; the sheets are
\* assigned and refreshSheetData runs up to loadCells
CallLoadInfo(i) ==
  /\ UNCHANGED initializeCalls
  /\ IF ~remote.reachable
       THEN CallStep(i, "loadInfo", "failed") /\ UNCHANGED svc
     ELSE IF ~remote.hasSheets
       THEN CallStep(i, "loadInfo", "failed") /\ svc' = [svc EXCEPT !.bound = FALSE]
     ELSE CallStep(i, "loadInfo", "loadCells") /\ svc' = [svc EXCEPT !.bound = TRUE]

\* googleSheets.ts lines 54-58: loadCells has answered for both sheets
CallLoadCells(i) ==
  /\ UNCHANGED initializeCalls
  /\ LET r == refreshSheetData(svc, remote)
     IN  /\ svc' = r.svc
         /\ CallStep(i, "loadCells", IF r.ok THEN "resume" ELSE "failed")

\* part_002 line 46: this.initialized = true
CallSetInitialized(i) ==
  /\ CallStep(i, "resume", "calculate")
  /\ svc' = [svc EXCEPT !.initialized = TRUE]
  /\ UNCHANGED initializeCalls

\* part_002 lines 53-62: the calculation itself
CallCalculate(i) ==
  /\ CallStep(i, "calculate", "done")
  /\ svc' = ensureFreshData(svc, remote).svc
  /\ UNCHANGED initializeCalls

NextCalls ==
  \/ \E i \in 1 .. MaxCalls : CallInitialize(i)
  \/ \E i \in 1 .. MaxCalls : CallLoadInfo(i)
  \/ \E i \in 1 .. MaxCalls : CallLoadCells(i)
  \/ \E i \in 1 .. MaxCalls : CallSetInitialized(i)
  \/ \E i \in 1 .. MaxCalls : CallCalculate(i)
  \/ \E r \in Remotes : EditSheet(r)

SpecCalls == InitCalls /\ [][NextCalls]_vars

(* ============================== claims ================================= *)

PriceDone == stage = "done" /\ op = "POST /price"

ReloadDone == stage = "done" /\ op = "POST /admin/reload-config"

Privileged == keyMatches(req.header, API_KEY)

\* the request body with the eight override fields removed
StripOverrideFields(body) ==
  [val |-> Without(body.val, OverrideFields), bad |-> body.bad \ OverrideFields]

\* C1 -- Override gating: sanitizeOverrides(input, false) holds none of the
\* eight override fields, and sanitizeOverrides(input, true) holds each of
\* them as the input does (it is the input).
C1_OverrideGating ==
  pc = "done" =>
    IF pAllow
      THEN /\ pPayload = pInput
           /\ \A f \in OverrideFields :
                Has(pInput, f) => Has(pPayload, f) /\ pPayload[f] = pInput[f]
      ELSE \A f \in OverrideFields : ~Has(pPayload, f)

\* C1 witness: an unprivileged run on an order carrying all eight overrides
C1_Witness ==
  /\ pc = "done"
  /\ ~pAllow
  /\ OverrideFields \subseteq DOMAIN pInput
  /\ DOMAIN pPayload = DOMAIN pInput \ OverrideFields

\* C2 -- Non-interference on POST /price: the response to a request whose
\* x-api-key does not match API_KEY is the response to the same request with
\* all override fields removed, whatever the caller put in them.
C2_NonInterference ==
  (PriceDone /\ ~Privileged) =>
    res = PostPriceHandler(StripOverrideFields(req.body), req.header, API_KEY,
                           cachedBefore, source).res

ScenarioDPriced == PriceDone /\ req.body = ScenarioDOverrides /\ cached = <<RefCfg>>

Breakdown(unit, subtotal, total) ==
  /\ res.status = 200
  /\ res.body.unit = Num(unit)
  /\ res.body.subtotal = Num(subtotal)
  /\ res.body.total = Num(total)

C4_SanitizeBeforePricing ==
  stage = "done" =>
    \A i \in DOMAIN steps :
      steps[i] = "calculatePrice" =>
        \E j \in 1 .. (i - 1) : steps[j] = "sanitizeOverrides"

\* C5 -- Non-negativity of total: every schema-valid order priced under a
\* valid rule set gets a total that is a number >= 0.
C5_TotalNonNegative ==
  (pc = "done" /\ pOut.ok) => (IsNum(pOut.value.total) /\ pOut.value.total[1] >= 0)

\* C6 -- Non-negativity of unit: every schema-valid order priced under a
\* valid rule set gets a unit price that is a number >= 0.
C6_UnitNonNegative ==
  (pc = "done" /\ pOut.ok) => (IsNum(pOut.value.unit) /\ pOut.value.unit[1] >= 0)

\* C7 -- Unknown dimension rejection: a dimensioned order whose dimension is
\* missing or is no key of dimensionBaseEUR makes calculatePrice fail, whatever
\* its other fields are (base_override_eur included).
C7_UnknownDimensionRejected ==
  (/\ pc = "done"
   /\ pPayload.product_type = "dimensioned"
   /\ (~Has(pPayload, "dimension") \/ pPayload.dimension \notin DOMAIN pCfg.dimensionBaseEUR))
    => ~pOut.ok

\* C8 -- A failed reload keeps the previous rule set: when a reload is run
\* with a rule set cached and fails, the cache still holds that rule set.
C8_FailedReloadKeepsCache ==
  (ReloadDone /\ Privileged /\ cachedBefore # NoCache /\ res.status = 500)
    => cached = cachedBefore

\* C9 -- Memoized load: with a rule set cached, a getPricingConfig call (from
\* POST /price or GET /healthz) leaves the cache as it is, reads nothing and
\* answers from the cached rule set, whatever the source file now holds.
C9_MemoizedLoad ==
  (/\ stage = "done"
   /\ op \in {"POST /price", "GET /healthz"}
   /\ cachedBefore # NoCache
   /\ res.status # 400)
    => /\ cached = cachedBefore
       /\ ~didRead
       /\ op = "GET /healthz" =>
            res = [status |-> 200, hash |-> Sha256(JSONStringify(cachedBefore[1]))]
       /\ op = "POST /price" =>
            res = PostPriceHandler(req.body, req.header, API_KEY, cachedBefore, NoFile).res

\* C9 witness: a price answered from the cached reference rule set while the
\* file on disk holds the edited one
C9_Witness ==
  /\ PriceDone
  /\ cachedBefore = <<RefCfg>>
  /\ source = AltFile
  /\ req.body = Doc(ScenarioA)
  /\ Breakdown(1120, 1120, 1120)
  /\ ~didRead

\* C10 -- Reload reflects the source: after a successful reload the cache
\* holds the validated content of the source file, whatever was cached
\* before, and the file was read to get it.
C10_ReloadReflectsSource ==
  (ReloadDone /\ res.status = 200)
    => /\ PricingSchema(source.doc).success
       /\ cached = <<PricingSchema(source.doc).data>>
       /\ didRead

\* C10 witness: a reload that replaces the cached reference rule set by the
\* edited one
C10_Witness ==
  /\ ReloadDone
  /\ res.status = 200
  /\ cachedBefore = <<RefCfg>>
  /\ source = AltFile
  /\ cached = <<AltCfg>>

\* the rule set as a mapping: what the pricing engine reads of it
Content(cfg) == Without(cfg, {"dimensionOrder"})

\* C11 -- Fingerprint tracks content: when a reload has replaced one cached
\* rule set by another, the hash configSignature returned before the reload
\* differs from the hash it returns after it if and only if the content of
\* the two rule sets differs.
C11_FingerprintTracksContent ==
  (ReloadDone /\ res.status = 200 /\ cachedBefore # NoCache)
    => ((configSignature(cachedBefore, source).hash # configSignature(cached, source).hash)
          <=> (Content(cachedBefore[1]) # Content(cached[1])))

\* the rule sets a getPricingConfig call may return: the one cached when the
\* handler began, and the validated content of the source file
CompleteRuleSets ==
  (IF cachedBefore # NoCache THEN {cachedBefore[1]} ELSE {})
    \cup (IF source.exists /\ JSONParses(StripBOM(source)) /\ PricingSchema(source.doc).success
            THEN {PricingSchema(source.doc).data} ELSE {})

\* C12 -- Atomic load under interleaving: in any interleaving of price,
\* healthz and reload requests (each handler is synchronous and runs to its
\* end), a price or healthz request that is answered 200 was answered from a
\* complete rule set, the one cached before or the freshly validated content
\* of the source, and that rule set is what the cache holds afterwards.
C12_AtomicLoad ==
  (stage = "done" /\ op \in {"POST /price", "GET /healthz"} /\ res.status = 200)
    => \E cfg \in CompleteRuleSets :
         /\ PricingFields \subseteq DOMAIN cfg
         /\ cached = <<cfg>>
         /\ op = "GET /healthz" => res.hash = Sha256(JSONStringify(cfg))
         /\ op = "POST /price" =>
              res.body =
                calculatePrice(
                  sanitizeOverrides(PriceInputSchema(req.body).data, Privileged),
                  cfg).value

\* C12 witness: the first price after a failed reload (nothing is cached) is
\* answered from the validated content of the edited file
C12_Witness ==
  /\ PriceDone
  /\ res.status = 200
  /\ cachedBefore = NoCache
  /\ source = AltFile
  /\ cached = <<AltCfg>>
  /\ req.body = Doc(ScenarioA)
  /\ Breakdown(1110, 1110, 1110)

\* the rule sets the loader can produce from the files that are tried
LoadableRuleSets == {PricingSchema(f.doc).data : f \in ValidFiles}

\* C13 -- Requests never mutate the rule set: the cached rule set is always a
\* value the loader produced; a price request, with or without overrides,
\* leaves a cached rule set as it found it, and its answer is computed from
\* that rule set and its own body alone.
C13_RuleSetNotMutated ==
  /\ cached # NoCache => cached[1] \in LoadableRuleSets
  /\ PriceDone =>
       /\ cachedBefore # NoCache => cached = cachedBefore
       /\ res.status = 200 =>
            res.body =
              calculatePrice(
                sanitizeOverrides(PriceInputSchema(req.body).data, Privileged),
                cached[1]).value

\* C13 witness: an authorized request carrying all eight overrides has been
\* priced and the cached reference rule set is as before
C13_Witness ==
  /\ PriceDone
  /\ res.status = 200
  /\ Privileged
  /\ OverrideFields \subseteq DOMAIN req.body.val
  /\ cachedBefore = <<RefCfg>>
  /\ cached = <<RefCfg>>

TermsDefined(input, cfg) ==
  /\ \/ Has(input, "base_override_eur")
     \/ input.product_type # "dimensioned"
     \/ Has(input, "dimension") /\ input.dimension \in DOMAIN cfg.dimensionBaseEUR
  /\ \/ /\ Has(input, "delivery_surcharge_override")
        /\ ToString(input.delivery_days) \in DOMAIN input.delivery_surcharge_override
     \/ ToString(input.delivery_days) \in DOMAIN cfg.delivery_surcharge_eur

BaseTerm(input, cfg) ==
  IF Has(input, "base_override_eur") THEN input.base_override_eur
  ELSE IF input.product_type = "dimensioned" THEN cfg.dimensionBaseEUR[input.dimension]
  ELSE IF input.product_type = "table_only" THEN cfg.base_table_only
  ELSE cfg.base_all_in_one

DeliveryTerm(input, cfg) ==
  LET tier == ToString(input.delivery_days)
  IN  IF Has(input, "delivery_surcharge_override")
           /\ tier \in DOMAIN input.delivery_surcharge_override
        THEN input.delivery_surcharge_override[tier]
        ELSE cfg.delivery_surcharge_eur[tier]

\* round(max(0, base - startup - firstOrder + delivery - advance) + adjust);
\* the amounts are whole euros, which round leaves as they are
UnitFormula(input, cfg) ==
  Max(0, BaseTerm(input, cfg)
         - Coalesce(input, "startup_discount_eur", cfg.startup_discount_eur)
         - Coalesce(input, "first_order_discount_eur",
                    cfg.first_order_discount_by_type[input.product_type])
         + DeliveryTerm(input, cfg)
         - Coalesce(input, "advance_payment_discount_eur",
                    cfg.advance_payment_discount_eur[input.advance_payment]))
    + Coalesce(input, "custom_unit_adjust_eur", 0)

\* C15 -- Unit price formula: every order whose terms the rule set (or an
\* override) gives is priced, with
\* unit = round(max(0, base - startup - firstOrder + delivery - advance)
\* + customUnitAdjust), each term the rule set's value unless overridden; on
\* the reference rule set the three test orders get 1120, 405 and 925.
C15_UnitFormula ==
  (pc # "start" /\ TermsDefined(pPayload, pCfg)) =>
    /\ pOut.ok
    /\ pOut.value.unit = Num(UnitFormula(pPayload, pCfg))
    /\ (pCfg = RefCfg /\ pPayload = ScenarioA) => pOut.value.unit = Num(1120)
    /\ (pCfg = RefCfg /\ pPayload = ScenarioB) => pOut.value.unit = Num(405)
    /\ (pCfg = RefCfg /\ pPayload = ScenarioC) => pOut.value.unit = Num(925)

\* C15 witness: an authorized order whose discounts exceed its base (the
\* floor at 0 acts) and whose custom per-unit adjustment is negative
C15_Witness ==
  /\ pc = "done"
  /\ pAllow
  /\ TermsDefined(pPayload, pCfg)
  /\ Has(pPayload, "startup_discount_eur")
  /\ Has(pPayload, "custom_unit_adjust_eur")
  /\ pOut.ok
  /\ pOut.value.unit = Num(-2000)

\* floor(quantity / 2) x rate for a quantity of at least 2, the rate being
\* the override if present (quantity in halves)
BulkDiscount(input, cfg) ==
  IF input.quantity >= 4
    THEN (input.quantity \div 4)
           * Coalesce(input, "two_pcs_line_discount_eur", cfg.two_pcs_line_discount_eur)
    ELSE 0

\* unrounded unit price x quantity, in half euros
SubtotalHalves(input, cfg) == UnitFormula(input, cfg) * input.quantity

\* C16 -- Subtotal and total: every order whose terms the rule set (or an
\* override) gives has subtotal = round(unrounded unit x quantity), in which
\* neither the bulk discount nor the custom line adjustment appears, and
\* total = max(0, round(unrounded subtotal - bulk discount + custom line
\* adjustment)); table_only quantity 2 gives 810 and 785, the authorized
\* override scenario 2210 and 2165.
C16_SubtotalAndTotal ==
  (pc # "start" /\ TermsDefined(pPayload, pCfg)) =>
    /\ pOut.ok
    /\ pOut.value.subtotal = Num(MathRound(SubtotalHalves(pPayload, pCfg)))
    /\ pOut.value.total =
         Num(Max(0, MathRound(SubtotalHalves(pPayload, pCfg)
                              - 2 * BulkDiscount(pPayload, pCfg)
                              + 2 * Coalesce(pPayload, "custom_line_adjust_eur", 0))))
    /\ (pCfg = RefCfg /\ pPayload = ScenarioB) =>
         pOut.value.subtotal = Num(810) /\ pOut.value.total = Num(785)
    /\ (pCfg = RefCfg /\ pPayload = ScenarioDOverrides.val) =>
         pOut.value.subtotal = Num(2210) /\ pOut.value.total = Num(2165)

\* C16 witness: the authorized override scenario, priced on the reference
\* rule set
C16_Witness ==
  /\ pc = "done"
  /\ pAllow
  /\ pCfg = RefCfg
  /\ pPayload = ScenarioDOverrides.val
  /\ pOut.ok
  /\ pOut.value.subtotal = Num(2210)
  /\ pOut.value.total = Num(2165)

\* the per-pair rate: the override if present, else the rule set's
PairRate(input, cfg) ==
  Coalesce(input, "two_pcs_line_discount_eur", cfg.two_pcs_line_discount_eur)

\* C17 -- Bulk discount pairing: the bulk discount of a priced order of
\* quantity q is floor(q / 2) x rate, the rate being the override if present
\* and the rule set's value otherwise: 0 below 2 whatever the rate, one rate
\* for 2 up to (not including) 4, always a whole number of pairs.
C17_BulkPairing ==
  (pc # "start" /\ pOut.ok) =>
    LET q == pPayload.quantity
        discount == pOut.value.adjustments.two_pcs_line_discount_total
        rate == PairRate(pPayload, pCfg)
    IN  /\ discount = (q \div 4) * rate
        /\ q < 4 => discount = 0
        /\ (4 <= q /\ q < 8) => discount = rate
        /\ \E pairs \in 0 .. 250 : discount = pairs * rate

\* C17 witness: an authorized order of quantity 3 with a rate override gets
\* the discount of one pair
C17_Witness ==
  /\ pc = "done"
  /\ pAllow
  /\ pOut.ok
  /\ pPayload.quantity = 6
  /\ Has(pPayload, "two_pcs_line_discount_eur")
  /\ pOut.value.adjustments.two_pcs_line_discount_total = 40

\* C18 -- No silent missing-key lookup: under a rule set the schema accepts,
\* an accepted order is refused or gets a breakdown in which every number is
\* defined; an order whose delivery tier is neither in the rule set's
\* surcharge map nor overridden is refused.
C18_NoSilentMissingKey ==
  (pc # "start" /\ PricingSchema(Doc(pCfg)).success) =>
    /\ pOut.ok =>
         /\ IsNum(pOut.value.base)
         /\ IsNum(pOut.value.adjustments.delivery_surcharge)
         /\ IsNum(pOut.value.unit)
         /\ IsNum(pOut.value.subtotal)
         /\ IsNum(pOut.value.total)
    /\ (/\ ToString(pPayload.delivery_days) \notin DOMAIN pCfg.delivery_surcharge_eur
        /\ ToString(pPayload.delivery_days) \notin
             DOMAIN Coalesce(pPayload, "delivery_surcharge_override", EmptyObject))
         => ~pOut.ok

\* the handler of the request in flight invoked calculatePrice
Priced == \E i \in DOMAIN steps : steps[i] = "calculatePrice"

\* an integer between 1 and 500 (in halves: even, 2 .. 1000)
IntegerQuantity(h) == h % 2 = 0 /\ 2 <= h /\ h <= 1000

\* C19 -- Quantity validation: an order that reaches calculatePrice through
\* POST /price has an integer quantity between 1 and 500 (1 when the body
\* has none); a body whose quantity is no such number is answered 400.
C19_QuantityValidated ==
  PriceDone =>
    /\ Priced =>
         /\ "quantity" \notin req.body.bad
         /\ IntegerQuantity(Coalesce(req.body.val, "quantity", 2))
    /\ (Has(req.body.val, "quantity") /\ ~IntegerQuantity(req.body.val.quantity))
         => res.status = 400

\* C20 -- Delivery tier validation: a POST /price request whose
\* delivery_days is missing, no number or none of 7, 30, 45, 60 is answered
\* 400 naming the field, and calculatePrice is not invoked for it; what is
\* priced is priced for the tier the request names.
C20_DeliveryTierValidated ==
  PriceDone =>
    /\ (~Has(req.body.val, "delivery_days")
          \/ req.body.val.delivery_days \notin {7, 30, 45, 60})
         => /\ res.status = 400
            /\ "delivery_days" \in res.details
            /\ ~Priced
    /\ (res.status = 200 /\ ~Has(req.body.val, "delivery_surcharge_override"))
         => res.body.adjustments.delivery_surcharge =
              Num(cached[1].delivery_surcharge_eur[ToString(req.body.val.delivery_days)])

\* C20 witness: a request for 8 days, next to the 7-day tier, was refused
C20_Witness ==
  /\ PriceDone
  /\ Has(req.body.val, "delivery_days")
  /\ req.body.val.delivery_days = 8
  /\ PriceInputErrors(req.body) = {"delivery_days"}
  /\ res.status = 400
  /\ ~Priced

\* a POST /price request failed: the schema refused it (400) or
\* calculatePrice refused its dimension (500)
PriceRefused ==
  /\ PriceDone
  /\ \/ res.status = 400
     \/ res.status = 500 /\ res.error = "Missing or invalid 'dimension'."

\* C21 -- as claimed: a POST /price request that fails gets an error
\* response and leaves the loader's cache exactly as it found it.
C21_NoProcessEffect ==
  PriceRefused =>
    /\ "error" \in DOMAIN res
    /\ cached = cachedBefore
    /\ ~didRead

\* C21 -- amended: a POST /price request that fails gets an error response;
\* a cached rule set is left as it was and the source is not read; a schema
\* rejection touches neither cache nor source; only when nothing was cached
\* does a request refused for its dimension leave behind the rule set it
\* loaded, the validated content of the source.
C21_NoEffectOnCachedRuleSet ==
  PriceRefused =>
    /\ "error" \in DOMAIN res
    /\ res.status = 400 => cached = cachedBefore /\ ~didRead
    /\ cachedBefore # NoCache => cached = cachedBefore /\ ~didRead
    /\ (cachedBefore = NoCache /\ res.status = 500) =>
         cached = <<PricingSchema(source.doc).data>> /\ didRead

\* C21 witness: a request refused for its dimension found the reference rule
\* set cached and left it cached, the file on disk being another
C21_Witness ==
  /\ PriceRefused
  /\ res.status = 500
  /\ cachedBefore = <<RefCfg>>
  /\ cached = <<RefCfg>>
  /\ source = AltFile

InquiryDone == stage = "done" /\ op = "POST /api/send-inquiry"

\* how many of the messages dispatched went to address
SentTo(address) == Cardinality({i \in DOMAIN outbox : outbox[i] = address})

\* C22 -- Inquiry notification reaches both parties: every inquiry
\* submission answered with a success response has dispatched, before the
\* response, one message to the sales team address and one message to the
\* customer's e-mail address.
C22_BothPartiesNotified ==
  (InquiryDone /\ res.status = 200) =>
    /\ SentTo(SalesAddress) = 1
    /\ SentTo(req.body.val.inquiry.email) = 1

\* the override present in the order, else the value of the rule set
Preferred(input, f, ruleSetValue) ==
  IF f \in DOMAIN input THEN input[f] ELSE ruleSetValue

\* the order's own delivery tier, as a key
OwnTier(input) == ToString(input.delivery_days)

\* the order with the entries of its override map for other tiers removed
OwnTierOnly(input) ==
  IF "delivery_surcharge_override" \in DOMAIN input
    THEN [input EXCEPT !.delivery_surcharge_override = Restrict(@, {OwnTier(input)})]
    ELSE input

\* C23 -- Override precedence: startup discount, first-order discount,
\* advance-payment discount and base price are the per-request override
\* whenever it is present (an override of 0 included) and the rule-set value
\* otherwise; the delivery surcharge is the override-map entry of the order's
\* own delivery tier when the map has one and the rule-set value otherwise,
\* and entries of the map for other tiers never affect the result.
C23_OverridePrecedence ==
  (pc = "done" /\ pOut.ok) =>
    LET adj == pOut.value.adjustments
        map == IF "delivery_surcharge_override" \in DOMAIN pPayload
                 THEN pPayload.delivery_surcharge_override ELSE EmptyObject
    IN  /\ adj.startup_discount
             = Preferred(pPayload, "startup_discount_eur", pCfg.startup_discount_eur)
        /\ adj.first_order_discount
             = Preferred(pPayload, "first_order_discount_eur",
                         pCfg.first_order_discount_by_type[pPayload.product_type])
        /\ adj.advance_payment_discount
             = Preferred(pPayload, "advance_payment_discount_eur",
                         pCfg.advance_payment_discount_eur[pPayload.advance_payment])
        /\ "base_override_eur" \in DOMAIN pPayload
             => pOut.value.base = Num(pPayload.base_override_eur)
        /\ ("base_override_eur" \notin DOMAIN pPayload
              /\ (pPayload.product_type = "dimensioned"
                    => pPayload.dimension \in DOMAIN pCfg.dimensionBaseEUR))
             => pOut.value.base = Num(BaseTerm(pPayload, pCfg))
        /\ OwnTier(pPayload) \in DOMAIN map
             => adj.delivery_surcharge = Num(map[OwnTier(pPayload)])
        /\ (OwnTier(pPayload) \notin DOMAIN map
              /\ OwnTier(pPayload) \in DOMAIN pCfg.delivery_surcharge_eur)
             => adj.delivery_surcharge = Num(pCfg.delivery_surcharge_eur[OwnTier(pPayload)])
        /\ pOut = calculatePrice(OwnTierOnly(pPayload), pCfg)

\* an order priced with a startup override of 0 and an override map that has
\* an entry for another tier than its own
C23_Witness ==
  /\ pc = "done" /\ pOut.ok
  /\ "startup_discount_eur" \in DOMAIN pPayload
  /\ pPayload.startup_discount_eur = 0
  /\ pCfg.startup_discount_eur = 25
  /\ pOut.value.adjustments.startup_discount = 0
  /\ "delivery_surcharge_override" \in DOMAIN pPayload
  /\ pPayload.delivery_days = 45
  /\ DOMAIN pPayload.delivery_surcharge_override = {"60", "30"}
  /\ pOut.value.adjustments.delivery_surcharge = Num(100)

\* the request in flight carries no x-api-key equal to a configured,
\* non-empty API_KEY
KeyMissing == API_KEY = "" \/ req.header = NoHeader \/ req.header # API_KEY

\* C24 -- Admin reload is always key-gated: a POST /admin/reload-config
\* whose x-api-key does not equal a configured, non-empty API_KEY (every
\* request when API_KEY is unset) is answered 401, and neither clears the
\* cached rule set nor re-reads the source.
C24_ReloadKeyGated ==
  (ReloadDone /\ KeyMissing) =>
    /\ res.status = 401
    /\ cached = cachedBefore
    /\ ~didRead
    /\ steps = <<>>

\* API_KEY unset, the header an empty string, a rule set cached and the
\* source edited since: 401, and the cache is as it was
C24_Witness ==
  /\ ReloadDone
  /\ API_KEY = "" /\ req.header = ""
  /\ res.status = 401
  /\ cachedBefore = <<RefCfg>> /\ cached = <<RefCfg>>
  /\ source = AltFile

\* C25 -- No privilege without a configured secret: when API_KEY is unset or
\* empty no request is privileged, whatever x-api-key it sends or omits, so
\* the override fields are stripped from every POST /price request: its
\* response is the response to the request with those fields removed.
C25_NoPrivilegeWithoutSecret ==
  API_KEY = "" =>
    /\ stage # "idle" => ~Privileged
    /\ PriceDone =>
         res = PostPriceHandler(StripOverrideFields(req.body), NoHeader,
                                API_KEY, cachedBefore, source).res

\* what a failing load throws (lines 210-219 of the loader)
LoaderErrors == {"ENOENT", "SyntaxError", "Invalid pricing config"}

\* the request in flight has been answered with a failure of the loader
LoaderFailed == stage = "done" /\ res.status = 500 /\ res.error \in LoaderErrors

\* the handler of the request in flight called getPricingConfig
LoaderCalled ==
  /\ stage = "done"
  /\ \E i \in DOMAIN steps :
       steps[i] \in {"calculatePrice", "configSignature", "reloadPricingConfig"}

\* C26 -- Loader recovery without negative caching: after a getPricingConfig
\* or reloadPricingConfig call has failed nothing is cached; a
\* getPricingConfig call that finds nothing cached reads the source again;
\* and with a valid source and nothing cached, the next price computation
\* caches the content of the source and prices the order with it, without
\* a reload.  (The cache is all the loader remembers, so "nothing cached" is
\* the state after a failure.)
C26_LoaderRecovers ==
  /\ LoaderFailed => cached = NoCache
  /\ (LoaderCalled /\ cachedBefore = NoCache) => didRead
  /\ (PriceDone /\ Priced /\ cachedBefore = NoCache /\ source \in ValidFiles) =>
       LET cfg == PricingSchema(source.doc).data
           payload == sanitizeOverrides(PriceInputSchema(req.body).data, Privileged)
           out == calculatePrice(payload, cfg)
       IN  /\ cached = <<cfg>>
           /\ res = IF out.ok THEN [status |-> 200, body |-> out.value]
                    ELSE [status |-> 500, error |-> out.error]
           /\ DimensionRejected(payload, cfg) \/ res.status = 200

\* a reload that failed on a file without its fields, with the reference
\* rule set cached before: nothing is cached now
C26_Witness ==
  /\ ReloadDone /\ LoaderFailed
  /\ source = MissingFieldFile
  /\ cachedBefore = <<RefCfg>>
  /\ cached = NoCache

HealthzDone == stage = "done" /\ op = "GET /healthz"

\* C27 -- Reported fingerprint matches the rule set in use: the hash that
\* configSignature returned is the hash of exactly the rule set that the next
\* calculatePrice call gets from getPricingConfig (both read the same cache),
\* whatever the source on disk holds by then.
C27_FingerprintOfRuleSetInUse ==
  (HealthzDone /\ res.status = 200) =>
    /\ cached # NoCache
    /\ \A file \in Files :
         LET next == getPricingConfig(cached, file)
         IN  /\ next.ok
             /\ ~next.read
             /\ res.hash = Sha256(JSONStringify(next.cfg))

\* a health check answered from the cached reference rule set while the
\* file on disk holds the edited one
C27_Witness ==
  /\ HealthzDone /\ res.status = 200
  /\ cachedBefore = <<RefCfg>>
  /\ source = AltFile
  /\ res.hash = Sha256(JSONStringify(RefCfg))
  /\ res.hash # Sha256(JSONStringify(AltCfg))

SheetsPriceDone == stage = "done" /\ op = "POST /price/sheets"

RefreshDone == stage = "done" /\ op = "POST /refresh-cache" /\ calculatorUp

\* the handler of the request in flight entered a spreadsheet calculation
\* (calculateBigTablePrice or calculateAllInOnePrice of googleSheets.ts)
CalculationStarted ==
  /\ SheetsPriceDone
  /\ \/ res.status = 200
     \/ res.status = 500 /\ res.error \in {"loadCells failed", "Price not found for dimension"}
          /\ svc.initialized

\* C28 -- Spreadsheet cache expiry: a spreadsheet price calculation that
\* starts more than 30 seconds after the last completed refresh reloads both
\* sheets before it reads a cell (a price it returns is computed from the
\* cells the spreadsheet holds then); a calculation that starts within 30
\* seconds of the last completed refresh performs no reload; and forceRefresh
\* always reloads and resets the 30-second window.
C28_CacheExpiry ==
  /\ (CalculationStarted /\ svcBefore.sinceRefresh > cacheTimeout) =>
       /\ didReload
       /\ res.status = 200 =>
            /\ svc.loaded = <<remote.cells>>
            /\ svc.sinceRefresh = 0
  /\ (SheetsPriceDone /\ svcBefore.sinceRefresh <= cacheTimeout) =>
       /\ ~didReload
       /\ svc = svcBefore
  /\ RefreshDone =>
       /\ didReload
       /\ (remote.reachable /\ remote.loadable) =>
            /\ res.status = 200
            /\ svc.loaded = <<remote.cells>>
            /\ svc.sinceRefresh = 0

\* C29 -- Single initialization of the spreadsheet service: for any
\* interleaving of concurrent PriceCalculatorService.calculatePrice calls,
\* also of several that arrive before the first initialization has completed,
\* GoogleSheetsService.initialize is executed at most once.
C29_SingleInitialization == initializeCalls <= 1

\* C30 -- Consistent Big Table breakdown: for every Big Table spreadsheet
\* request that is priced, price_per_unit = base_price - discounts_applied
\* + (delivery_fee if include_delivery, else 0); so the fast-order discount
\* lowers the price only when is_fast_order is set and delivery_days <= 7,
\* which is when it is counted in discounts_applied.
C30_BigTableBreakdown ==
  (SheetsPriceDone /\ res.status = 200 /\ res.body.product_type = "big_table") =>
    LET request == PriceRequestSchema(req.body).data
        b == res.body
    IN  b.price_per_unit
          = b.base_price - b.discounts_applied
              + (IF request.include_delivery THEN b.delivery_fee ELSE 0)

====
